---- MODULE Spec2Model ----
(***************************************************************************)
(* A model of mgenomicsremotemail's RunDispatcher                          *)
(* (src/src/mgenomicsremotemail/dispatch/dispatch.py).                     *)
(*                                                                         *)
(* A file name is a sequence of one-character strings, so that             *)
(* str.startswith and the string order used by sorted() are computed and   *)
(* not assumed.  A path is a non-empty sequence of names.  The filesystem  *)
(* is a function from the existing paths to the kind of entry found there. *)
(***************************************************************************)
EXTENDS Integers, Sequences, FiniteSets, TLC

VARIABLES
    fs,        \* the filesystem: existing path -> "dir" | "file" | "locked"
    lsorder,   \* the order in which the filesystem lists directory entries
    run_ids,   \* self.run_ids: the <<run id, run folder>> pairs in dict order
    pc,        \* position of the program
    ret,       \* outcome of the last call: a value returned or an exception
    idx,       \* position of the running for loop in the sequence it iterates
    result,    \* check_all_folders: the lines added to its result so far
    folder,    \* check_all_folders: its local variable folder
    to_default_recipients,  \* self.to_default_recipients
    arg_run_ids,  \* dispatch: the list of run ids it was called with
    recipients,   \* dispatch: the list object of recipients it was called with
    res,       \* dispatch: its local variable res
    content,   \* the bytes of the archive files: path -> member names and trailer
    smtp,      \* the SMTP commands the mail server has accepted, in order
    mails,     \* the messages the mail server has accepted, in order
    received,  \* request_emails: what the operator entered in the last dialog
    textr,     \* request_emails: the text of the dialog shown next
    arg_recipients,  \* dispatch: the recipients as the caller passed them
    calls,     \* run: the methods it has called so far, in order
    selected,  \* run: its local variable run_ids
    groups,    \* run: its local variable groups
    output,    \* what the command line entry point has written to stdout
    mtime,     \* modification time of the entries of the public directory
    now        \* the clock, in ticks

checkvars == <<idx, result, folder>>
dispatchvars == <<to_default_recipients, arg_run_ids, arg_recipients, recipients, res,
                  content, smtp, mails>>
emailvars == <<received, textr>>
runvars == <<calls, selected, groups, output>>
timevars == <<mtime, now>>
vars == <<fs, lsorder, run_ids, pc, ret, checkvars, dispatchvars, emailvars, runvars, timevars>>

----------------------------------------------------------------------------
(* Bounds of the model *)

\* number of distinct "Alignment_<n>" names that may occur in a run folder
MaxAlign == 2

\* number of run folders found by __collect_ids
MaxRuns == 2

\* length of the list of run ids handed to dispatch
MaxList == 2

\* number of comma-separated pieces the operator enters in one dialog
MaxPieces == 2

\* number of clock ticks in one second: the resolution of os.path.getmtime
\* and datetime.now below the second
SubSecond == 2

----------------------------------------------------------------------------
(* Names and strings *)

\* The characters used by the names of the model, in code point order.
CharOrder ==
    <<",", ".", "0", "1", "2", "3", "4", "5", "6", "7", "8", "9", "@",
      "A", "B", "C", "D", "F", "G", "I", "M", "N", "S", "U", "_",
      "a", "b", "c", "d", "e", "f", "g", "i", "l", "m", "n", "o", "p", "q",
      "r",
      "s", "t", "u", "x", "z">>

\* ord(c) up to an order-preserving renumbering
CharRank(c) == CHOOSE k \in 1..Len(CharOrder) : CharOrder[k] = c

\* Python's str.__lt__: lexicographic by code point, a proper prefix is smaller
RECURSIVE StrLess(_, _)
StrLess(a, b) ==
    IF b = <<>> THEN FALSE
    ELSE IF a = <<>> THEN TRUE
    ELSE IF Head(a) = Head(b) THEN StrLess(Tail(a), Tail(b))
    ELSE CharRank(Head(a)) < CharRank(Head(b))

\* str.startswith
StartsWith(s, prefix) ==
    /\ Len(s) >= Len(prefix)
    /\ SubSeq(s, 1, Len(prefix)) = prefix

\* the lists of up to n elements of S
SeqsUpTo(S, n) == UNION {[1..k -> S] : k \in 0..n}

Digits == <<"0", "1", "2", "3", "4", "5", "6", "7", "8", "9">>

\* str(n) for a natural number
RECURSIVE Decimal(_)
Decimal(n) ==
    IF n < 10 THEN <<Digits[n + 1]>>
    ELSE Decimal(n \div 10) \o <<Digits[(n % 10) + 1]>>

AlignmentPrefix == <<"A", "l", "i", "g", "n", "m", "e", "n", "t">>
UnalignedName == <<"U", "n", "a", "l", "i", "g", "n", "e", "d">>
DataName == <<"D", "a", "t", "a">>
IntensitiesName == <<"I", "n", "t", "e", "n", "s", "i", "t", "i", "e", "s">>
BaseCallsName == <<"B", "a", "s", "e", "C", "a", "l", "l", "s">>
FastqName == <<"F", "a", "s", "t", "q">>

\* "Alignment_<n>"
AlignmentName(n) == AlignmentPrefix \o <<"_">> \o Decimal(n)

\* The alignment numbers of the model straddle a change in the number of
\* digits, where string order and numeric order disagree
\* ("Alignment_9" > "Alignment_10").
AlignNos == 9 .. (9 + MaxAlign - 1)

----------------------------------------------------------------------------
(* Paths and the filesystem *)

\* pathlib's "/" operator
Join(p, name) == Append(p, name)

\* Path.name
NameOf(p) == p[Len(p)]

\* Path.parent
Parent(p) == SubSeq(p, 1, Len(p) - 1)

\* PurePath.__lt__: compares the sequences of parts
RECURSIVE PathLess(_, _)
PathLess(p, q) ==
    IF q = <<>> THEN FALSE
    ELSE IF p = <<>> THEN TRUE
    ELSE IF Head(p) = Head(q) THEN PathLess(Tail(p), Tail(q))
    ELSE StrLess(Head(p), Head(q))

\* Path.exists
Exists(f, p) == p \in DOMAIN f

\* Path.is_dir
IsDir(f, p) == p \in DOMAIN f /\ f[p] \in {"dir", "locked"}

Children(f, p) == {q \in DOMAIN f : Len(q) = Len(p) + 1 /\ Parent(q) = p}

\* The entries of a set of paths in ascending order.
RECURSIVE Ascending(_)
Ascending(S) ==
    IF S = {} THEN <<>>
    ELSE LET m == CHOOSE x \in S : \A y \in S \ {x} : PathLess(x, y)
         IN <<m>> \o Ascending(S \ {m})

Reverse(s) == [k \in 1..Len(s) |-> s[Len(s) + 1 - k]]

Rotate(s, r) ==
    IF Len(s) = 0 THEN s
    ELSE [k \in 1..Len(s) |-> s[((k - 1 + r) % Len(s)) + 1]]

\* The orders in which a directory may be listed: the order of os.listdir is
\* arbitrary.  An order is a rotation of the sorted entries, read forwards
\* or backwards; for up to three entries these are all the permutations.
ListOrders == [rot : 0..2, rev : BOOLEAN]

\* What Path.iterdir raises, "none" when it lists the directory
IterDirError(f, p) ==
    IF ~Exists(f, p) THEN "FileNotFoundError"
    ELSE IF f[p] = "file" THEN "NotADirectoryError"
    ELSE IF f[p] = "locked" THEN "PermissionError"
    ELSE "none"

\* Path.iterdir of a readable directory: the children in listing order
IterDir(f, o, p) ==
    LET r == Rotate(Ascending(Children(f, p)), o.rot)
    IN IF o.rev THEN Reverse(r) ELSE r

----------------------------------------------------------------------------
(* Outcomes of a call *)

None == <<>>
NotCalled == [tag |-> "notcalled", value |-> None, msg |-> "", arg |-> None]
Return(v) == [tag |-> "return", value |-> v, msg |-> "", arg |-> None]
Raise(exc, m, a) == [tag |-> exc, value |-> None, msg |-> m, arg |-> a]

NoFastqMsg == "No folder containing fastq files found in"

\* a local variable that has not been assigned
Unbound == <<<<"unbound">>>>

\* check_all_folders is not running
CheckIdle ==
    /\ idx = 0
    /\ result = <<>>
    /\ folder = Unbound

\* no dialog has been answered
NotAsked == <<"NotAsked">>

\* _get_formatted_text: the colour and, in the text, the address that the
\* message names (NotAsked when the text holds no message)
_get_formatted_text(invalid, red) ==
    [color |-> IF red THEN "#ff0000" ELSE "#000000", invalid |-> invalid]

\* request_emails is not running
EmailsIdle ==
    /\ received = NotAsked
    /\ textr = _get_formatted_text(NotAsked, FALSE)

\* res = -1, b"None"
NoRes == <<-1, "None">>

\* no file has content
NoContent == [p \in {} |-> <<>>]

\* dispatch is not running: nothing was sent, no archive exists
DispatchIdle ==
    /\ to_default_recipients = TRUE
    /\ arg_run_ids = <<>>
    /\ arg_recipients = <<>>
    /\ recipients = <<>>
    /\ res = NoRes
    /\ content = NoContent
    /\ smtp = <<>>
    /\ mails = <<>>

\* run has not been called and nothing was written to stdout
RunIdle ==
    /\ calls = <<>>
    /\ selected = Unbound
    /\ groups = NotAsked
    /\ output = <<>>

\* no entry carries a modification time
NoTimes == [p \in {} |-> 0]

\* the public directory is not looked at: the clock and the times are left out
TimeIdle ==
    /\ mtime = NoTimes
    /\ now = 0

----------------------------------------------------------------------------
(* RunDispatcher.get_input_folder *)

\* sub: the nested folder named after the run id when it exists
Candidate(f, run_folder, run_id) ==
    IF Exists(f, Join(run_folder, run_id)) THEN Join(run_folder, run_id)
    ELSE run_folder

\* the entries of the listing whose name starts with "Alignment"
AlignmentsOf(listing) ==
    SelectSeq(listing, LAMBDA s : StartsWith(NameOf(s), AlignmentPrefix))

\* insertion of x into a descending sequence, after the elements equal to it
RECURSIVE InsertDesc(_, _)
InsertDesc(x, s) ==
    IF s = <<>> THEN <<x>>
    ELSE IF PathLess(Head(s), x) THEN <<x>> \o s
    ELSE <<Head(s)>> \o InsertDesc(x, Tail(s))

RECURSIVE SortedDescFrom(_, _)
SortedDescFrom(s, acc) ==
    IF s = <<>> THEN acc
    ELSE SortedDescFrom(Tail(s), InsertDesc(Head(s), acc))

\* the alignments in listing order, unsorted
UnsortedAlignments(alignments) == alignments

\* sorted(alignments, reverse=True)
SortAlignments(alignments) == SortedDescFrom(alignments, <<>>)

\* the loop over alignments[0].iterdir() that breaks after its first entry
FirstChildFastq(f, o, alignment) ==
    LET listing == IterDir(f, o, alignment)
    IN IF Len(listing) > 0 THEN Join(listing[1], FastqName) ELSE None

\* the legacy branch with the two conventions tried in the other order
LegacyFolderBaseCallsFirst(f, run_folder) ==
    LET unaligned == Join(run_folder, UnalignedName)
        basecalls == Join(Join(Join(run_folder, DataName), IntensitiesName), BaseCallsName)
    IN IF Exists(f, basecalls) THEN Return(basecalls)
       ELSE IF Exists(f, unaligned) THEN Return(unaligned)
       ELSE Raise("ValueError", NoFastqMsg, run_folder)

\* "this is the old stuff": Unaligned, then Data/Intensities/BaseCalls,
\* both looked for under run_folder
LegacyFolder(f, run_folder) ==
    LET unaligned == Join(run_folder, UnalignedName)
        basecalls == Join(Join(Join(run_folder, DataName), IntensitiesName), BaseCallsName)
    IN IF Exists(f, unaligned) THEN Return(unaligned)
       ELSE IF Exists(f, basecalls) THEN Return(basecalls)
       ELSE Raise("ValueError", NoFastqMsg, run_folder)

\* a result handed back without the check for None
ReturnUnchecked(path_2_files, run_folder) == Return(path_2_files)

\* if path_2_files is None: raise ValueError(...); return path_2_files
ReturnChecked(path_2_files, run_folder) ==
    IF path_2_files = None THEN Raise("ValueError", NoFastqMsg, run_folder)
    ELSE Return(path_2_files)

get_input_folder(f, o, run_folder, run_id) ==
    LET sub == Candidate(f, run_folder, run_id)
    IN IF IterDirError(f, sub) # "none"
       THEN Raise(IterDirError(f, sub), "", sub)
       ELSE LET alignments == AlignmentsOf(IterDir(f, o, sub))
            IN IF Len(alignments) > 0
               THEN LET chosen == SortAlignments(alignments)[1]
                    IN IF IterDirError(f, chosen) # "none"
                       THEN Raise(IterDirError(f, chosen), "", chosen)
                       ELSE ReturnChecked(FirstChildFastq(f, o, chosen), run_folder)
               ELSE LegacyFolder(f, run_folder)

----------------------------------------------------------------------------
(* RunDispatcher.check_for_fastq *)

\* the "in" operator on strings: sub occurs in s
Contains(s, sub) ==
    \E k \in 0..(Len(s) - Len(sub)) : SubSeq(s, k + 1, k + Len(sub)) = sub

DotFastq == <<".", "f", "a", "s", "t", "q">>

\* check_for_fastq as it was when it looked for "fastq" without the dot
check_for_fastq_undotted(f, o, path_2_files) ==
    IF IterDirError(f, path_2_files) # "none"
    THEN Raise(IterDirError(f, path_2_files), "", path_2_files)
    ELSE Return(\E k \in 1..Len(IterDir(f, o, path_2_files)) :
                    Contains(NameOf(IterDir(f, o, path_2_files)[k]),
                             <<"f", "a", "s", "t", "q">>))

\* a check that any entry of the folder satisfies
check_for_fastq_any(f, o, path_2_files) ==
    IF IterDirError(f, path_2_files) # "none"
    THEN Raise(IterDirError(f, path_2_files), "", path_2_files)
    ELSE Return(Len(IterDir(f, o, path_2_files)) > 0)

check_for_fastq(f, o, path_2_files) ==
    IF IterDirError(f, path_2_files) # "none"
    THEN Raise(IterDirError(f, path_2_files), "", path_2_files)
    ELSE Return(\E k \in 1..Len(IterDir(f, o, path_2_files)) :
                    Contains(NameOf(IterDir(f, o, path_2_files)[k]), DotFastq))

----------------------------------------------------------------------------
(* RunDispatcher.check_all_folders *)

\* a line of the result; the header is left out
Line(run_id, text, path) == [run_id |-> run_id, text |-> text, folder |-> path]

\* The body of the for loop for one run id, given the value the local
\* variable folder has when the iteration starts.  The outcome holds the
\* value of folder after the iteration and either the line added to the
\* result or the exception that leaves the loop.  The two except clauses
\* format folder, which is unbound when get_input_folder has raised in every
\* iteration so far: the f-string then raises UnboundLocalError.
CheckOne(f, o, old_folder, run_id, run_folder) ==
    LET got == get_input_folder(f, o, run_folder, run_id)
        new_folder == IF got.tag = "return" THEN got.value ELSE old_folder
        checked == IF got.tag = "return" THEN check_for_fastq(f, o, got.value) ELSE got
        unbound == Raise("UnboundLocalError", "folder", run_folder)
    IN CASE checked.tag = "return" ->
              [folder |-> new_folder, exc |-> NotCalled,
               line |-> Line(run_id, IF checked.value THEN "is ok" ELSE "is empty", new_folder)]
         [] checked.tag = "PermissionError" ->
              IF new_folder = Unbound
              THEN [folder |-> new_folder, exc |-> unbound, line |-> None]
              ELSE [folder |-> new_folder, exc |-> NotCalled,
                    line |-> Line(run_id, "PermissionError for", new_folder)]
         [] checked.tag = "ValueError" /\ checked.msg = NoFastqMsg ->
              IF new_folder = Unbound
              THEN [folder |-> new_folder, exc |-> unbound, line |-> None]
              ELSE [folder |-> new_folder, exc |-> NotCalled,
                    line |-> Line(run_id, "No fastq folder for", new_folder)]
         [] OTHER ->
              [folder |-> new_folder, exc |-> checked, line |-> None]

----------------------------------------------------------------------------
(* RunDispatcher.send_email *)

\* The SMTP commands of send_email in the order it issues them.
SmtpSteps == <<"connect", "starttls", "login", "sendmail", "quit">>

\* The command at which the SMTP exchange fails, "none" when none does.
SmtpFailures == {"none"} \cup {SmtpSteps[k] : k \in 1..Len(SmtpSteps)}

\* the reply of the server to QUIT
QuitReply == <<221, "Bye">>

\* generate_message: what the text and the headers of the message depend on
generate_message(filename, md5sum, to, ag) ==
    [filename |-> filename, md5sum |-> md5sum, recipients |-> to, ag |-> ag]

\* the commands of send_email up to, and without, the one that fails
AcceptedSteps(fail) ==
    SelectSeq(SmtpSteps,
              LAMBDA c : \A k \in 1..Len(SmtpSteps) :
                            SmtpSteps[k] = fail => \E j \in 1..(k - 1) : SmtpSteps[j] = c)

\* The command that fails in fact: s.sendmail raises SMTPRecipientsRefused
\* when it is handed no recipient at all, whatever the server would do.
FailingStep(to, fail) ==
    IF to = <<>> /\ fail \in {"none", "quit"} THEN "sendmail" ELSE fail

\* send_email without the closing s.quit()
send_email_no_quit(sm, ml, filename, md5sum, to, ag, fail) ==
    LET failing == FailingStep(to, fail)
        accepted == SelectSeq(AcceptedSteps(failing), LAMBDA c : c # "quit")
    IN [smtp |-> sm \o accepted,
        mails |-> IF \E k \in 1..Len(accepted) : accepted[k] = "sendmail"
                  THEN Append(ml, generate_message(filename, md5sum, to, ag))
                  ELSE ml,
        out |-> IF failing = "none" THEN Return(QuitReply)
                ELSE Raise("SMTPException", failing, None)]

\* send_email: one session per call; a command that fails raises and the
\* commands after it are not issued
send_email(sm, ml, filename, md5sum, to, ag, fail) ==
    LET failing == FailingStep(to, fail)
        accepted == AcceptedSteps(failing)
    IN [smtp |-> sm \o accepted,
        mails |-> IF \E k \in 1..Len(accepted) : accepted[k] = "sendmail"
                  THEN Append(ml, generate_message(filename, md5sum, to, ag))
                  ELSE ml,
        out |-> IF failing = "none" THEN Return(QuitReply)
                ELSE Raise("SMTPException", failing, None)]

----------------------------------------------------------------------------
(* RunDispatcher._targz and _get_md5sum *)

\* the members of the archive: the entries of infolder, in listing order,
\* whose name contains ".fastq" and that are not directories
ArchiveMembers(f, o, infolder) ==
    LET members == SelectSeq(IterDir(f, o, infolder),
                             LAMBDA x : Contains(NameOf(x), DotFastq) /\ ~IsDir(f, x))
    IN [k \in 1..Len(members) |-> NameOf(members[k])]

\* the bytes tarfile writes when the archive is closed: the end-of-archive
\* blocks and the gzip trailer
EndOfArchive == <<"e", "n", "d">>

\* the bytes of a closed archive of the members
TarGz(members) == Append(members, EndOfArchive)

\* Where _targz fails: nowhere, while the archive is written in the temporary
\* directory, or while shutil.move copies the closed archive to the public
\* path (os.rename is refused when the working directory and the public
\* directory are on different filesystems, and shutil.move then copies).
TargzFailures == {"none", "write", "copy"}

\* number of archive pieces shutil.move may have copied when it fails
MaxCopied == 1

\* _targz: the archive is written and closed inside a temporary directory
\* of the working directory and then moved to the public path; the temporary
\* directory is gone when the call ends, however it ends.  A failure while
\* writing leaves the public path alone; a failure of the copy leaves the
\* pieces copied so far at the public path.
_targz(f, c, o, infolder, public_archive, tfail, copied) ==
    LET bytes == TarGz(ArchiveMembers(f, o, infolder))
        n == IF copied < Len(bytes) THEN copied ELSE Len(bytes) - 1
    IN CASE tfail = "none" ->
              [fs |-> (public_archive :> "file") @@ f,
               content |-> (public_archive :> bytes) @@ c,
               out |-> Return(None)]
         [] tfail = "write" ->
              [fs |-> f, content |-> c, out |-> Raise("OSError", "write", public_archive)]
         [] tfail = "copy" ->
              [fs |-> (public_archive :> "file") @@ f,
               content |-> (public_archive :> SubSeq(bytes, 1, n)) @@ c,
               out |-> Raise("OSError", "copy", public_archive)]

\* the checksum of a file, as a function of its bytes
_get_md5sum(c, path_2_file) == <<"md5", c[path_2_file]>>

----------------------------------------------------------------------------
(* RunDispatcher.dispatch *)

PublicName == <<"p", "u", "b", "l", "i", "c">>

\* self.public_path
public_path == <<PublicName>>

\* self.default_recipients
default_recipients ==
    << <<"m", "a", "r", "c", "o", "@", "s", "t", "a", "f", "f">>,
       <<"a", "n", "d", "r", "e", "a", "@", "i", "m", "t">>,
       <<"k", "a", "t", "h", "a", "r", "i", "n", "a", "@", "u", "n", "i">> >>

\* a dispatch that adds the default recipients whatever the flag says
ExtendAlways(flag, to) == to \o default_recipients

\* if self.to_default_recipients: recipients.extend(self.default_recipients)
\* gives the list that the caller's list object holds afterwards
ExtendRecipients(flag, to) == IF flag THEN to \o default_recipients ELSE to

\* f"{run_id}_AG_{ag}.tar.gz"
ArchiveFileName(run_id, ag) ==
    run_id \o <<"_", "A", "G", "_">> \o ag \o <<".", "t", "a", "r", ".", "g", "z">>

\* run_id in self.run_ids
IsKnown(map, run_id) == \E k \in 1..Len(map) : map[k][1] = run_id

\* self.run_ids[run_id]
FolderOf(map, run_id) == map[CHOOSE k \in 1..Len(map) : map[k][1] = run_id][2]

\* an iteration that takes back the emails of the call when it raises
DispatchOutcomeRolledBack(f, c, sm, ml, out) ==
    [fs |-> f, content |-> c, smtp |-> sm,
     mails |-> IF out.tag = "return" THEN ml ELSE <<>>, out |-> out]

\* What one iteration of the for loop leaves behind.
DispatchOutcome(f, c, sm, ml, out) ==
    [fs |-> f, content |-> c, smtp |-> sm, mails |-> ml, out |-> out]

\* an archive step that writes the archive whether or not one is there
ArchiveAlways(f, c, o, path_2_files, public_archive, tfail, copied) ==
    _targz(f, c, o, path_2_files, public_archive, tfail, copied)

\* if not public_archive.exists(): self._targz(path_2_files, public_archive)
\* else: print("Archive already exists ...")
ArchiveUnlessThere(f, c, o, path_2_files, public_archive, tfail, copied) ==
    IF Exists(f, public_archive)
    THEN [fs |-> f, content |-> c, out |-> Return(None)]
    ELSE _targz(f, c, o, path_2_files, public_archive, tfail, copied)

\* a loop body that catches what _targz and send_email raise and goes on
DispatchFolderSwallowing(f, c, o, sm, ml, run_folder, run_id, ag, to, fail, tfail, copied) ==
    LET filename == ArchiveFileName(run_id, ag)
        public_archive == Join(public_path, filename)
        path_2_files == get_input_folder(f, o, run_folder, run_id).value
        made == ArchiveUnlessThere(f, c, o, path_2_files, public_archive, tfail, copied)
        sent == send_email(sm, ml, filename, <<"md5">>, to, ag, fail)
    IN IF get_input_folder(f, o, run_folder, run_id).tag # "return"
       THEN DispatchOutcome(f, c, sm, ml, get_input_folder(f, o, run_folder, run_id))
       ELSE IF IterDirError(f, path_2_files) # "none"
       THEN DispatchOutcome(f, c, sm, ml,
                            Raise(IterDirError(f, path_2_files), "", path_2_files))
       ELSE IF ~check_for_fastq(f, o, path_2_files).value
       THEN DispatchOutcome(f, c, sm, ml, Raise("ValueError", "is empty for", path_2_files))
       ELSE IF made.out.tag # "return"
       THEN DispatchOutcome(made.fs, made.content, sm, ml, Return(NoRes))
       ELSE DispatchOutcome(made.fs, made.content, sent.smtp, sent.mails,
                            Return(NoRes))

\* The body of the for loop once the run folder is known to exist:
\* resolve the folder, list it, check it, create the archive unless a file
\* of its name is in the public directory, and send the email.
DispatchFolder(f, c, o, sm, ml, run_folder, run_id, ag, to, fail, tfail, copied) ==
    LET got == get_input_folder(f, o, run_folder, run_id)
        path_2_files == got.value
        filename == ArchiveFileName(run_id, ag)
        public_archive == Join(public_path, filename)
    IN IF got.tag # "return" THEN DispatchOutcome(f, c, sm, ml, got)
       ELSE IF IterDirError(f, path_2_files) # "none"
       THEN DispatchOutcome(f, c, sm, ml,
                            Raise(IterDirError(f, path_2_files), "", path_2_files))
       ELSE IF ~check_for_fastq(f, o, path_2_files).value
       THEN DispatchOutcome(f, c, sm, ml, Raise("ValueError", "is empty for", path_2_files))
       ELSE LET made == ArchiveUnlessThere(f, c, o, path_2_files, public_archive,
                                           tfail, copied)
                sent == send_email(sm, ml, filename,
                                   _get_md5sum(made.content, public_archive),
                                   to, ag, fail)
            IN IF made.out.tag # "return"
               THEN DispatchOutcome(made.fs, made.content, sm, ml, made.out)
               ELSE DispatchOutcome(made.fs, made.content, sent.smtp, sent.mails, sent.out)

\* the for loop body that passes over a run id it does not know
DispatchOneSkipping(f, c, o, map, sm, ml, run_id, ag, to, fail, tfail, copied) ==
    IF IsKnown(map, run_id) /\ Exists(f, FolderOf(map, run_id))
    THEN DispatchFolder(f, c, o, sm, ml, FolderOf(map, run_id), run_id, ag, to, fail,
                        tfail, copied)
    ELSE DispatchOutcome(f, c, sm, ml, Return(NoRes))

\* The body of the for loop for one run id.
DispatchOne(f, c, o, map, sm, ml, run_id, ag, to, fail, tfail, copied) ==
    IF IsKnown(map, run_id)
    THEN IF Exists(f, FolderOf(map, run_id))
         THEN DispatchFolder(f, c, o, sm, ml, FolderOf(map, run_id), run_id, ag, to, fail,
                        tfail, copied)
         ELSE DispatchOutcome(f, c, sm, ml,
                              Raise("ValueError", "Folder does not exist.", FolderOf(map, run_id)))
    ELSE DispatchOutcome(f, c, sm, ml, Raise("ValueError", "Run does not exist.", <<run_id>>))

----------------------------------------------------------------------------
(* RunDispatcher.cleanup *)

\* RunDispatcher.MAXDAYS
MAXDAYS == 14

\* the ticks of one day
DayTicks == 24 * 60 * 60 * SubSecond

\* get_ctime: the modification time written by time.ctime and read back by
\* strptime, which keeps whole seconds only
get_ctime(times, filepath) == times[filepath] - (times[filepath] % SubSecond)

\* timedelta.days: the whole days of a difference, rounded down
Days(delta) == delta \div DayTicks

\* _get_old_files: the entries of the public directory, in listing order,
\* whose delta.days is at least MAXDAYS
_get_old_files(f, o, times, current_time) ==
    IF IterDirError(f, public_path) # "none"
    THEN Raise(IterDirError(f, public_path), "", public_path)
    ELSE Return(SelectSeq(IterDir(f, o, public_path),
                          LAMBDA filename :
                             Days(current_time - get_ctime(times, filename)) >= MAXDAYS))

\* what Path.unlink raises, "none" when it removes the entry
UnlinkError(f, p) ==
    IF ~Exists(f, p) THEN "FileNotFoundError"
    ELSE IF IsDir(f, p) THEN "IsADirectoryError"
    ELSE "none"

\* a function without one element of its domain
Without(fn, p) == [q \in (DOMAIN fn) \ {p} |-> fn[q]]

\* for filename in ...: filename.unlink(), up to the first unlink that raises
RECURSIVE UnlinkAll(_, _, _, _)
UnlinkAll(f, c, times, files) ==
    IF files = <<>>
    THEN [fs |-> f, content |-> c, mtime |-> times, out |-> Return(None)]
    ELSE IF UnlinkError(f, Head(files)) # "none"
    THEN [fs |-> f, content |-> c, mtime |-> times,
          out |-> Raise(UnlinkError(f, Head(files)), "", Head(files))]
    ELSE UnlinkAll(Without(f, Head(files)), Without(c, Head(files)),
                   Without(times, Head(files)), Tail(files))

\* the modification times once the archives of a dispatch are written: an
\* entry that is new to the public directory carries the time of the clock
Stamp(f, times, current_time) ==
    [p \in Children(f, public_path) |->
        IF p \in DOMAIN times THEN times[p] ELSE current_time]

\* cleanup: what it leaves behind and what it returns or raises
cleanup(f, c, o, times, current_time) ==
    LET old == _get_old_files(f, o, times, current_time)
    IN IF old.tag # "return"
       THEN [fs |-> f, content |-> c, mtime |-> times, out |-> old]
       ELSE UnlinkAll(f, c, times, old.value)

----------------------------------------------------------------------------
(* RunDispatcher.request_emails *)

\* the dialog was cancelled: app.run() returns None
Cancelled == <<"None">>

Whitespace == {" "}

\* re.sub(r"\s+", "", received)
StripWhitespace(text) == SelectSeq(text, LAMBDA ch : ch \notin Whitespace)

\* str.split(sep) for a one-character separator
RECURSIVE Split(_, _)
Split(text, sep) ==
    IF \E k \in 1..Len(text) : text[k] = sep
    THEN LET k == CHOOSE i \in 1..Len(text) :
                     text[i] = sep /\ \A j \in 1..(i - 1) : text[j] # sep
         IN <<SubSeq(text, 1, k - 1)>> \o Split(SubSeq(text, k + 1, Len(text)), sep)
    ELSE <<text>>

\* _request_emails_once after the dialog has returned
_request_emails_once(entered) ==
    IF entered = Cancelled THEN Raise("SystemExit", "Aborted!", None)
    ELSE IF entered = <<>> THEN Return(<<>>)
    ELSE Return(Split(StripWhitespace(entered), ","))

\* email_validator.validate_email accepts the address: one "@" with a local
\* part before it and, after it, a domain of two or more non-empty labels
\* separated by periods
ValidEmail(email) ==
    /\ Cardinality({k \in 1..Len(email) : email[k] = "@"}) = 1
    /\ LET parts == Split(email, "@")
           labels == Split(parts[2], ".")
       IN /\ parts[1] # <<>>
          /\ Len(labels) >= 2
          /\ \A k \in 1..Len(labels) : labels[k] # <<>>

\* a validation that accepts no list
ValidateNever(to) == [ok |-> FALSE, invalid |-> IF to = <<>> THEN <<>> ELSE to[1]]

\* a validation that looks at the first address only
ValidateFirstOnly(to) ==
    IF to # <<>> /\ ~ValidEmail(to[1])
    THEN [ok |-> FALSE, invalid |-> to[1]]
    ELSE [ok |-> TRUE, invalid |-> NotAsked]

\* _validate_recipients: False and a message naming the first address that
\* validate_email rejects, True when it rejects none
_validate_recipients(to) ==
    IF \E k \in 1..Len(to) : ~ValidEmail(to[k])
    THEN [ok |-> FALSE,
          invalid |-> to[CHOOSE k \in 1..Len(to) :
                            ~ValidEmail(to[k]) /\ \A j \in 1..(k - 1) : ValidEmail(to[j])]]
    ELSE [ok |-> TRUE, invalid |-> NotAsked]

----------------------------------------------------------------------------
(* Run folders of the model *)

IncomingName == <<"i", "n", "c", "o", "m", "i", "n", "g">>
Child1Name == <<"2", "2", "2", "2", "2">>
Child2Name == <<"2", "3", "3", "3", "3">>

\* the k-th run id: a digit-prefixed name of more than four characters
RunId(k) == Decimal(21000 + k)

\* the folder of the k-th run, as __collect_ids finds it under a root
RunFolder(k) == <<IncomingName, RunId(k)>>

\* What an "Alignment_<n>" entry may be: absent, a plain file, an unreadable
\* directory, or a directory holding a subset of two children, of which the
\* first has a Fastq directory and the second has none.
AlignKinds == {"absent", "file", "locked", "empty", "c1", "c2", "c12"}

\* The layouts of one run folder: the nested folder named after the run id,
\* the alignment entries and where they are, and the legacy directories
\* directly under the run folder and under the nested folder.
Layouts ==
    {L \in [nested : {"none", "dir", "file", "locked"},
            aligns : [AlignNos -> AlignKinds],
            alignAt : {"top", "nested"},
            unalTop : BOOLEAN, bcTop : BOOLEAN,
            unalNested : BOOLEAN, bcNested : BOOLEAN] :
        L.nested # "dir" =>
            (L.alignAt = "top" /\ ~L.unalNested /\ ~L.bcNested)}

AlignNodes(base, n, kind) ==
    LET a == Join(base, AlignmentName(n))
        c1 == Join(a, Child1Name)
        c2 == Join(a, Child2Name)
    IN CASE kind = "absent" -> {}
         [] kind = "file" -> {<<a, "file">>}
         [] kind = "locked" -> {<<a, "locked">>}
         [] kind = "empty" -> {<<a, "dir">>}
         [] kind = "c1" -> {<<a, "dir">>, <<c1, "dir">>, <<Join(c1, FastqName), "dir">>}
         [] kind = "c2" -> {<<a, "dir">>, <<c2, "dir">>}
         [] kind = "c12" -> {<<a, "dir">>, <<c1, "dir">>, <<Join(c1, FastqName), "dir">>,
                             <<c2, "dir">>}

LegacyNodes(base, unal, bc) ==
    (IF unal THEN {<<Join(base, UnalignedName), "dir">>} ELSE {})
    \cup
    (IF bc THEN {<<Join(base, DataName), "dir">>,
                 <<Join(Join(base, DataName), IntensitiesName), "dir">>,
                 <<Join(Join(Join(base, DataName), IntensitiesName), BaseCallsName), "dir">>}
     ELSE {})

LayoutNodes(run_folder, run_id, L) ==
    LET nest == Join(run_folder, run_id)
        abase == IF L.alignAt = "nested" THEN nest ELSE run_folder
    IN {<<run_folder, "dir">>}
       \cup (IF L.nested = "none" THEN {} ELSE {<<nest, L.nested>>})
       \cup UNION {AlignNodes(abase, n, L.aligns[n]) : n \in AlignNos}
       \cup LegacyNodes(run_folder, L.unalTop, L.bcTop)
       \cup LegacyNodes(nest, L.unalNested, L.bcNested)

\* the filesystem holding a set of <<path, kind>> entries
MakeFs(nodes) ==
    [p \in {n[1] : n \in nodes} |-> (CHOOSE n \in nodes : n[1] = p)[2]]

RootNodes == {<<<<IncomingName>>, "dir">>}

----------------------------------------------------------------------------
(* RunDispatcher.__init__ and __collect_ids *)

NextSeqName == <<"N", "e", "x", "t", "S", "e", "q">>
MiSeqName == <<"M", "i", "S", "e", "q">>

\* self.all_paths
all_paths == << <<IncomingName>>, <<IncomingName, NextSeqName>>, <<IncomingName, MiSeqName>> >>

\* str.isdigit on one character
IsDigit(c) == \E d \in 1..Len(Digits) : Digits[d] = c

\* name[0].isdigit()
FirstIsDigit(name) == IsDigit(name[1])

\* all_runs[key] = value on a dict that always adds an entry
SetItemAppending(map, key, value) == Append(map, <<key, value>>)

\* all_runs.setdefault(key, value): the entry seen first is kept
SetItemKeepingFirst(map, key, value) ==
    IF IsKnown(map, key) THEN map ELSE Append(map, <<key, value>>)

\* all_runs[key] = value: a known key keeps its place and gets the new value
SetItem(map, key, value) ==
    IF IsKnown(map, key)
    THEN [k \in 1..Len(map) |-> IF map[k][1] = key THEN <<key, value>> ELSE map[k]]
    ELSE Append(map, <<key, value>>)

\* the inner loop as it was before the nested names were checked
RECURSIVE CollectSubsUnchecked(_, _)
CollectSubsUnchecked(subs, all_runs) ==
    IF subs = <<>> THEN all_runs
    ELSE CollectSubsUnchecked(Tail(subs), SetItem(all_runs, NameOf(Head(subs)), Head(subs)))

\* for sub in item.iterdir(): the loop over the entries of a 4-character folder
RECURSIVE CollectSubs(_, _)
CollectSubs(subs, all_runs) ==
    IF subs = <<>> THEN all_runs
    ELSE LET sub == Head(subs)
         IN CollectSubs(Tail(subs),
                        IF FirstIsDigit(NameOf(sub)) /\ Len(NameOf(sub)) > 4
                        THEN SetItem(all_runs, NameOf(sub), sub)
                        ELSE all_runs)

\* for item in path.iterdir(): the loop over the entries of one root
RECURSIVE CollectItems(_, _, _, _)
CollectItems(f, o, items, all_runs) ==
    IF items = <<>> THEN Return(all_runs)
    ELSE LET item == Head(items)
         IN IF FirstIsDigit(NameOf(item))
            THEN IF Len(NameOf(item)) > 4
                 THEN CollectItems(f, o, Tail(items), SetItem(all_runs, NameOf(item), item))
                 ELSE IF Len(NameOf(item)) = 4
                 THEN IF IterDirError(f, item) # "none"
                      THEN Raise(IterDirError(f, item), "", item)
                      ELSE CollectItems(f, o, Tail(items),
                                        CollectSubs(IterDir(f, o, item), all_runs))
                 ELSE CollectItems(f, o, Tail(items), all_runs)
            ELSE CollectItems(f, o, Tail(items), all_runs)

\* for path in self.all_paths: the loop over the roots
RECURSIVE CollectPaths(_, _, _, _)
CollectPaths(f, o, paths, all_runs) ==
    IF paths = <<>> THEN Return(all_runs)
    ELSE IF IterDirError(f, Head(paths)) # "none"
    THEN Raise(IterDirError(f, Head(paths)), "", Head(paths))
    ELSE LET got == CollectItems(f, o, IterDir(f, o, Head(paths)), all_runs)
         IN IF got.tag = "return" THEN CollectPaths(f, o, Tail(paths), got.value)
            ELSE got

\* the dict that __collect_ids stores in self._run_ids, or what it raises
__collect_ids(f, o) == CollectPaths(f, o, all_paths, <<>>)

----------------------------------------------------------------------------
(* The constructor applied to the roots *)

YearName == <<"2", "0", "2", "1">>
ShortName == <<"2", "1", "0">>
LetterName == <<"x", "2", "1", "0", "0", "1">>

\* What the roots may hold: run folders directly under a root, a
\* 4-character folder with nested entries, a name of 3 characters, names
\* not starting with a digit, and roots that are missing.
RootLayouts ==
    {L \in [top1 : {"absent", "dir", "file"},
            top2 : {"absent", "dir"},
            year : {"absent", "dir", "file"},
            yearSubs : SUBSET {RunId(1), RunId(3), YearName, LetterName},
            short : BOOLEAN,
            nextseq : BOOLEAN,
            nextSubs : SUBSET {RunId(1), RunId(2)},
            miseq : BOOLEAN,
            miRun : BOOLEAN,
            miYear : BOOLEAN] :
        /\ L.year # "dir" => L.yearSubs = {}
        /\ ~L.nextseq => L.nextSubs = {}
        /\ ~L.miseq => (~L.miRun /\ ~L.miYear)}

RootLayoutNodes(L) ==
    LET inc == all_paths[1]
        nxt == all_paths[2]
        mi == all_paths[3]
    IN {<<inc, "dir">>}
       \cup (IF L.top1 = "absent" THEN {} ELSE {<<Join(inc, RunId(1)), L.top1>>})
       \cup (IF L.top2 = "absent" THEN {} ELSE {<<Join(inc, RunId(2)), L.top2>>})
       \cup (IF L.year = "absent" THEN {} ELSE {<<Join(inc, YearName), L.year>>})
       \cup {<<Join(Join(inc, YearName), n), "dir">> : n \in L.yearSubs}
       \cup (IF L.short THEN {<<Join(inc, ShortName), "dir">>} ELSE {})
       \cup (IF L.nextseq THEN {<<nxt, "dir">>} ELSE {})
       \cup {<<Join(nxt, n), "dir">> : n \in L.nextSubs}
       \cup (IF L.miseq THEN {<<mi, "dir">>} ELSE {})
       \cup (IF L.miRun THEN {<<Join(mi, RunId(1)), "dir">>} ELSE {})
       \cup (IF L.miYear THEN {<<Join(mi, YearName), "dir">>,
                               <<Join(Join(mi, YearName), RunId(2)), "dir">>}
             ELSE {})

InitCollect ==
    /\ \E L \in RootLayouts : fs = MakeFs(RootLayoutNodes(L))
    /\ lsorder \in ListOrders
    /\ run_ids = <<>>
    /\ pc = "idle"
    /\ ret = NotCalled
    /\ CheckIdle
    /\ DispatchIdle
    /\ EmailsIdle
    /\ RunIdle
    /\ TimeIdle

\* RunDispatcher(): the run ids are collected, or the constructor raises
Construct ==
    /\ pc = "idle"
    /\ LET got == __collect_ids(fs, lsorder)
       IN IF got.tag = "return"
          THEN /\ run_ids' = got.value
               /\ ret' = Return(None)
               /\ pc' = "constructed"
          ELSE /\ ret' = got
               /\ pc' = "construct_raised"
               /\ UNCHANGED run_ids
    /\ UNCHANGED <<fs, lsorder, checkvars, dispatchvars, emailvars, runvars, timevars>>

NextCollect == Construct

SpecCollect == InitCollect /\ [][NextCollect]_vars

----------------------------------------------------------------------------
(* The resolver applied to one run folder *)

InitResolve ==
    /\ \E L \in Layouts : fs = MakeFs(RootNodes \cup LayoutNodes(RunFolder(1), RunId(1), L))
    /\ lsorder \in ListOrders
    /\ run_ids = <<<<RunId(1), RunFolder(1)>>>>
    /\ pc = "idle"
    /\ ret = NotCalled
    /\ CheckIdle
    /\ DispatchIdle
    /\ EmailsIdle
    /\ RunIdle
    /\ TimeIdle

\* folder = self.get_input_folder(run_folder, run_id)
GetInputFolderCall ==
    /\ pc = "idle"
    /\ ret' = get_input_folder(fs, lsorder, RunFolder(1), RunId(1))
    /\ pc' = "resolved"
    /\ UNCHANGED <<fs, lsorder, run_ids, checkvars, dispatchvars, emailvars, runvars, timevars>>

NextResolve == GetInputFolderCall

SpecResolve == InitResolve /\ [][NextResolve]_vars

----------------------------------------------------------------------------
(* The batch check over the known run folders *)

FastqFileName == <<"d", ".", "f", "a", "s", "t", "q", ".", "g", "z">>
OtherFileName == <<"d", ".", "t", "x", "t">>

\* What a known run folder may look like when the folders are checked.
RunKinds ==
    {"ok", "legacy", "empty", "nofastqdir", "nolayout", "nochild",
     "alignfile", "lockedrun", "lockedfastq"}

RunNodes(run_folder, kind) ==
    LET a == Join(run_folder, AlignmentName(9))
        c == Join(a, Child1Name)
        fq == Join(c, FastqName)
        un == Join(run_folder, UnalignedName)
    IN CASE kind = "ok" ->
              {<<run_folder, "dir">>, <<a, "dir">>, <<c, "dir">>, <<fq, "dir">>,
               <<Join(fq, FastqFileName), "file">>}
         [] kind = "legacy" ->
              {<<run_folder, "dir">>, <<un, "dir">>, <<Join(un, FastqFileName), "file">>}
         [] kind = "empty" ->
              {<<run_folder, "dir">>, <<a, "dir">>, <<c, "dir">>, <<fq, "dir">>,
               <<Join(fq, OtherFileName), "file">>}
         [] kind = "nofastqdir" ->
              {<<run_folder, "dir">>, <<a, "dir">>, <<c, "dir">>}
         [] kind = "nolayout" ->
              {<<run_folder, "dir">>, <<Join(run_folder, OtherFileName), "file">>}
         [] kind = "nochild" ->
              {<<run_folder, "dir">>, <<a, "dir">>}
         [] kind = "alignfile" ->
              {<<run_folder, "dir">>, <<a, "file">>}
         [] kind = "lockedrun" ->
              {<<run_folder, "locked">>}
         [] kind = "lockedfastq" ->
              {<<run_folder, "dir">>, <<a, "dir">>, <<c, "dir">>, <<fq, "locked">>}
         [] kind = "missing" -> {}

\* self.run_ids after __collect_ids has found n run folders
CollectedRunIds(n) == [k \in 1..n |-> <<RunId(k), RunFolder(k)>>]

InitCheck ==
    /\ \E n \in 0..MaxRuns : \E kinds \in [1..n -> RunKinds] :
          /\ fs = MakeFs(RootNodes \cup UNION {RunNodes(RunFolder(k), kinds[k]) : k \in 1..n})
          /\ run_ids = CollectedRunIds(n)
    /\ lsorder \in ListOrders
    /\ pc = "idle"
    /\ ret = NotCalled
    /\ CheckIdle
    /\ DispatchIdle
    /\ EmailsIdle
    /\ RunIdle
    /\ TimeIdle

\* result = "Checking all Run IDs: ..."; the for loop is entered
CheckAllFoldersBegin ==
    /\ pc = "idle"
    /\ pc' = "check"
    /\ idx' = 1
    /\ result' = <<>>
    /\ folder' = Unbound
    /\ UNCHANGED <<fs, lsorder, run_ids, ret, dispatchvars, emailvars, runvars, timevars>>

\* one iteration of the for loop over self.run_ids
CheckAllFoldersStep ==
    /\ pc = "check"
    /\ idx <= Len(run_ids)
    /\ LET one == CheckOne(fs, lsorder, folder, run_ids[idx][1], run_ids[idx][2])
       IN /\ folder' = one.folder
          /\ IF one.exc = NotCalled
             THEN /\ result' = Append(result, one.line)
                  /\ idx' = idx + 1
                  /\ UNCHANGED <<pc, ret>>
             ELSE /\ pc' = "check_raised"
                  /\ ret' = one.exc
                  /\ UNCHANGED <<result, idx>>
    /\ UNCHANGED <<fs, lsorder, run_ids, dispatchvars, emailvars, runvars, timevars>>

\* return result
CheckAllFoldersReturn ==
    /\ pc = "check"
    /\ idx > Len(run_ids)
    /\ pc' = "check_done"
    /\ ret' = Return(result)
    /\ UNCHANGED <<fs, lsorder, run_ids, checkvars, dispatchvars, emailvars, runvars, timevars>>

NextCheck ==
    \/ CheckAllFoldersBegin
    \/ CheckAllFoldersStep
    \/ CheckAllFoldersReturn

SpecCheck == InitCheck /\ [][NextCheck]_vars

----------------------------------------------------------------------------
(* check_for_fastq applied to one directory *)

\* the directory handed to check_for_fastq
FastqDir == Join(RunFolder(1), FastqName)

\* a directory whose name contains ".fastq"
DotFastqDirName == <<"a", ".", "f", "a", "s", "t", "q">>

\* a name that contains "fastq" but not ".fastq"
FastqcName == <<"f", "a", "s", "t", "q", "c">>

\* the entries the directory may hold, with their kinds
FastqDirEntries ==
    {<<FastqFileName, "file">>, <<OtherFileName, "file">>, <<DotFastqDirName, "dir">>,
     <<FastqcName, "dir">>, <<FastqName, "dir">>}

InitFastq ==
    /\ \E kind \in {"dir", "file", "locked", "missing"} :
          \E entries \in SUBSET FastqDirEntries :
             /\ kind # "dir" => entries = {}
             /\ fs = MakeFs(RootNodes \cup {<<RunFolder(1), "dir">>}
                            \cup (IF kind = "missing" THEN {} ELSE {<<FastqDir, kind>>})
                            \cup {<<Join(FastqDir, n[1]), n[2]>> : n \in entries})
    /\ lsorder \in ListOrders
    /\ run_ids = CollectedRunIds(1)
    /\ pc = "idle"
    /\ ret = NotCalled
    /\ CheckIdle
    /\ DispatchIdle
    /\ EmailsIdle
    /\ RunIdle
    /\ TimeIdle

\* self.check_for_fastq(path_2_files)
CheckForFastqCall(path_2_files) ==
    /\ pc = "idle"
    /\ ret' = check_for_fastq(fs, lsorder, path_2_files)
    /\ pc' = "fastq_checked"
    /\ UNCHANGED <<fs, lsorder, run_ids, checkvars, dispatchvars, emailvars, runvars, timevars>>

NextFastq == CheckForFastqCall(FastqDir)

SpecFastq == InitFastq /\ [][NextFastq]_vars

----------------------------------------------------------------------------
(* The read-only operations called on the known run folders *)

\* get_run_ids_string: the run ids in dict order, one per line; the header
\* is left out
get_run_ids_string(map) == [k \in 1..Len(map) |-> map[k][1]]

\* a get_run_ids_string that takes the run ids out of the dict as it
\* writes them
GetRunIdsStringDraining ==
    /\ pc = "idle"
    /\ ret' = Return(get_run_ids_string(run_ids))
    /\ run_ids' = <<>>
    /\ pc' = "ids_done"
    /\ UNCHANGED <<fs, lsorder, checkvars, dispatchvars, emailvars, runvars, timevars>>

\* self.get_run_ids_string()
GetRunIdsStringCall ==
    /\ pc = "idle"
    /\ ret' = Return(get_run_ids_string(run_ids))
    /\ pc' = "ids_done"
    /\ UNCHANGED <<fs, lsorder, run_ids, checkvars, dispatchvars, emailvars, runvars, timevars>>

\* the paths check_for_fastq is called on: every existing path and one
\* that does not exist
ProbedPaths == DOMAIN fs \cup {FastqDir}

NextReadOnly ==
    \/ GetInputFolderCall
    \/ \E path_2_files \in ProbedPaths : CheckForFastqCall(path_2_files)
    \/ CheckAllFoldersBegin
    \/ CheckAllFoldersStep
    \/ CheckAllFoldersReturn
    \/ GetRunIdsStringCall

SpecReadOnly == InitCheck /\ [][NextReadOnly]_vars

----------------------------------------------------------------------------
(* dispatch called on a list of run ids *)

\* What a run folder of self.run_ids may look like when dispatch is called;
\* "missing" is a folder removed since the run ids were collected.
DispatchKinds == {"ok", "legacy", "empty", "nofastqdir", "nolayout", "missing"}

\* a run id that is no key of self.run_ids
UnknownRunId == Decimal(12)

\* the research group of the call
AG == <<"a", "g">>

\* the recipients typed by the operator
CallerRecipients == {<<>>, << <<"x", ".", "y", "@", "g", "m", "a", "i", "l">> >>}

\* an archive left in the public directory by an earlier call
StaleMembers == TarGz(<<OtherFileName>>)

InitDispatch ==
    /\ \E kinds \in [1..2 -> DispatchKinds] : \E stale \in BOOLEAN :
          LET archive == Join(public_path, ArchiveFileName(RunId(1), AG))
          IN /\ fs = MakeFs(RootNodes \cup {<<public_path, "dir">>}
                            \cup UNION {RunNodes(RunFolder(k), kinds[k]) : k \in 1..2}
                            \cup (IF stale THEN {<<archive, "file">>} ELSE {}))
             /\ content = IF stale THEN (archive :> StaleMembers) ELSE NoContent
    /\ run_ids = CollectedRunIds(2)
    /\ lsorder \in {o \in ListOrders : o.rot = 0}
    /\ to_default_recipients \in BOOLEAN
    /\ pc = "idle"
    /\ ret = NotCalled
    /\ CheckIdle
    /\ EmailsIdle
    /\ RunIdle
    /\ now = 0
    /\ mtime = Stamp(fs, NoTimes, now)
    /\ arg_run_ids = <<>>
    /\ arg_recipients = <<>>
    /\ recipients = <<>>
    /\ res = NoRes
    /\ smtp = <<>>
    /\ mails = <<>>

\* dispatch(run_ids, ag, recipients) up to the for loop
DispatchBegin ==
    /\ pc = "idle"
    /\ \E ids \in SeqsUpTo({RunId(1), RunId(2), UnknownRunId}, MaxList) :
          arg_run_ids' = ids
    /\ \E to \in CallerRecipients :
          /\ arg_recipients' = to
          /\ recipients' = ExtendRecipients(to_default_recipients, to)
    /\ res' = NoRes
    /\ idx' = 1
    /\ pc' = "dispatch"
    /\ UNCHANGED <<fs, lsorder, run_ids, ret, result, folder,
                   to_default_recipients, content, smtp, mails, emailvars,
                   runvars, timevars>>

\* one iteration of the for loop over run_ids; send_email is reached only
\* after _targz, so a failure of the SMTP exchange is drawn only together
\* with a _targz that does not fail
DispatchStep ==
    /\ pc = "dispatch"
    /\ idx <= Len(arg_run_ids)
    /\ \E tfail \in TargzFailures :
       \E copied \in IF tfail = "copy" THEN 0..MaxCopied ELSE {0} :
       \E fail \in IF tfail = "none" THEN SmtpFailures ELSE {"none"} :
          LET one == DispatchOne(fs, content, lsorder, run_ids, smtp, mails,
                                 arg_run_ids[idx], AG, recipients, fail, tfail, copied)
          IN /\ fs' = one.fs
             /\ content' = one.content
             /\ mtime' = Stamp(one.fs, mtime, now)
             /\ smtp' = one.smtp
             /\ mails' = one.mails
             /\ IF one.out.tag = "return"
                THEN /\ res' = one.out.value
                     /\ idx' = idx + 1
                     /\ UNCHANGED <<pc, ret>>
                ELSE /\ pc' = "dispatch_raised"
                     /\ ret' = one.out
                     /\ UNCHANGED <<res, idx>>
    /\ UNCHANGED <<lsorder, run_ids, result, folder, to_default_recipients,
                   arg_run_ids, arg_recipients, recipients, emailvars,
                   runvars, now>>

\* a return that hands back the initial value of res
DispatchReturnInitial ==
    /\ pc = "dispatch"
    /\ idx > Len(arg_run_ids)
    /\ pc' = "dispatch_done"
    /\ ret' = Return(NoRes)
    /\ UNCHANGED <<fs, lsorder, run_ids, checkvars, dispatchvars, emailvars, runvars, timevars>>

\* return res
DispatchReturn ==
    /\ pc = "dispatch"
    /\ idx > Len(arg_run_ids)
    /\ pc' = "dispatch_done"
    /\ ret' = Return(res)
    /\ UNCHANGED <<fs, lsorder, run_ids, checkvars, dispatchvars, emailvars, runvars, timevars>>

NextDispatch ==
    \/ DispatchBegin
    \/ DispatchStep
    \/ DispatchReturn

SpecDispatch == InitDispatch /\ [][NextDispatch]_vars

\* The caller calls dispatch a second time and hands it the list object it
\* handed to the first call; calls is the caller's count of these calls.
DispatchAgain ==
    /\ pc = "dispatch_done"
    /\ calls = <<>>
    /\ calls' = <<"dispatch">>
    /\ \E ids \in SeqsUpTo({RunId(1), RunId(2), UnknownRunId}, MaxList) :
          arg_run_ids' = ids
    /\ arg_recipients' = recipients
    /\ recipients' = ExtendRecipients(to_default_recipients, recipients)
    /\ res' = NoRes
    /\ idx' = 1
    /\ pc' = "dispatch"
    /\ UNCHANGED <<fs, lsorder, run_ids, ret, result, folder,
                   to_default_recipients, content, smtp, mails, emailvars,
                   selected, groups, output, timevars>>

NextDispatchTwice ==
    \/ DispatchBegin
    \/ DispatchStep
    \/ DispatchReturn
    \/ DispatchAgain

\* the caller of the two calls starts with an empty public directory and
\* run folders that hold read files
InitDispatchTwice ==
    /\ InitDispatch
    /\ ~lsorder.rev
    /\ Children(fs, public_path) = {}
    /\ \A k \in 1..2 :
          \/ Exists(fs, Join(Join(RunFolder(k), UnalignedName), FastqFileName))
          \/ Exists(fs, Join(RunFolder(k), AlignmentName(9)))
             /\ Children(fs, Join(Join(Join(RunFolder(k), AlignmentName(9)), Child1Name),
                                  FastqName)) # {}

SpecDispatchTwice == InitDispatchTwice /\ [][NextDispatchTwice]_vars

----------------------------------------------------------------------------
(* cleanup called on a public directory *)

\* a directory inside the public directory
PublicSubdirName == <<"o", "l", "d">>

\* the entries the public directory may hold, with their kinds
PublicEntries ==
    {<<ArchiveFileName(RunId(1), AG), "file">>, <<ArchiveFileName(RunId(2), AG), "file">>,
     <<PublicSubdirName, "dir">>}

\* the ages of the entries: modified after the clock was read, just now,
\* one tick less than MAXDAYS days ago, MAXDAYS days ago, and a day more
Ages == {-1, 0, MAXDAYS * DayTicks - 1, MAXDAYS * DayTicks, (MAXDAYS + 1) * DayTicks}

\* the clock when cleanup is called: on a whole second, or ticks after it
Clocks == {(MAXDAYS + 2) * DayTicks + t : t \in 0..(SubSecond - 1)}

InitCleanup ==
    /\ now \in Clocks
    /\ \E kind \in {"dir", "locked", "missing"} :
          \E entries \in SUBSET PublicEntries :
             /\ kind # "dir" => entries = {}
             /\ fs = MakeFs(RootNodes
                            \cup (IF kind = "missing" THEN {} ELSE {<<public_path, kind>>})
                            \cup {<<Join(public_path, n[1]), n[2]>> : n \in entries})
             /\ \E ages \in [{Join(public_path, n[1]) : n \in entries} -> Ages] :
                   mtime = [p \in DOMAIN ages |-> now - ages[p]]
    /\ content = [p \in {q \in DOMAIN fs : Len(q) = 2 /\ fs[q] = "file"} |-> StaleMembers]
    /\ lsorder \in ListOrders
    /\ run_ids = <<>>
    /\ pc = "idle"
    /\ ret = NotCalled
    /\ CheckIdle
    /\ EmailsIdle
    /\ RunIdle
    /\ to_default_recipients = TRUE
    /\ arg_run_ids = <<>>
    /\ arg_recipients = <<>>
    /\ recipients = <<>>
    /\ res = NoRes
    /\ smtp = <<>>
    /\ mails = <<>>

\* self.cleanup()
CleanupCall ==
    /\ pc = "idle"
    /\ LET done == cleanup(fs, content, lsorder, mtime, now)
       IN /\ fs' = done.fs
          /\ content' = done.content
          /\ mtime' = done.mtime
          /\ ret' = done.out
          /\ pc' = IF done.out.tag = "return" THEN "cleanup_done" ELSE "cleanup_raised"
    /\ UNCHANGED <<lsorder, run_ids, checkvars, to_default_recipients, arg_run_ids,
                   arg_recipients, recipients, res, smtp, mails, emailvars, runvars, now>>

NextCleanup == CleanupCall

SpecCleanup == InitCleanup /\ [][NextCleanup]_vars

----------------------------------------------------------------------------
(* The recipient dialog *)

\* The pieces an operator types between commas: two addresses that are
\* valid, and an empty piece and two addresses that are not.
Pieces ==
    {<<"a", "@", "b", ".", "c">>, <<"x", "@", "y", ".", "z">>,
     <<>>, <<"a", ".", "b">>, <<"a", "@", "b">>}

\* ",".join(pieces), with a blank after every comma when spaced
RECURSIVE JoinPieces(_, _)
JoinPieces(pieces, spaced) ==
    IF Len(pieces) = 0 THEN <<>>
    ELSE IF Len(pieces) = 1 THEN pieces[1]
    ELSE pieces[1] \o (IF spaced THEN <<",", " ">> ELSE <<",">>)
         \o JoinPieces(Tail(pieces), spaced)

\* What the operator may enter: up to MaxPieces pieces, with or without
\* blanks; the empty entry and an entry of blanks are among them.
Entries ==
    {JoinPieces(ps, FALSE) : ps \in SeqsUpTo(Pieces, MaxPieces)}
    \cup {<<" ">> \o JoinPieces(ps, TRUE) : ps \in SeqsUpTo(Pieces, MaxPieces)}

InitEmails ==
    /\ fs = MakeFs(RootNodes)
    /\ lsorder = [rot |-> 0, rev |-> FALSE]
    /\ run_ids = <<>>
    /\ pc = "idle"
    /\ ret = NotCalled
    /\ CheckIdle
    /\ DispatchIdle
    /\ EmailsIdle
    /\ RunIdle
    /\ TimeIdle

\* request_emails up to its while loop
RequestEmailsBegin ==
    /\ pc = "idle"
    /\ pc' = "emails"
    /\ textr' = _get_formatted_text(NotAsked, FALSE)
    /\ recipients' = <<>>
    /\ UNCHANGED <<fs, lsorder, run_ids, ret, checkvars, received,
                   to_default_recipients, arg_run_ids, arg_recipients, res, content,
                   smtp, mails, runvars, timevars>>

\* one iteration of the while loop: the dialog is answered, by one of the
\* given entries, or cancelled, and what was entered is validated
RequestEmailsOnceFrom(entries) ==
    /\ pc = "emails"
    /\ \E entered \in entries \cup {Cancelled} :
          LET once == _request_emails_once(entered)
              valid == _validate_recipients(once.value)
          IN /\ received' = entered
             /\ IF once.tag # "return"
                THEN /\ pc' = "emails_exit"
                     /\ ret' = once
                     /\ UNCHANGED <<recipients, textr>>
                ELSE /\ recipients' = once.value
                     /\ IF valid.ok
                        THEN /\ pc' = "emails_done"
                             /\ ret' = Return(once.value)
                             /\ UNCHANGED textr
                        ELSE /\ textr' = _get_formatted_text(valid.invalid, TRUE)
                             /\ UNCHANGED <<pc, ret>>
    /\ UNCHANGED <<fs, lsorder, run_ids, checkvars,
                   to_default_recipients, arg_run_ids, arg_recipients, res, content,
                   smtp, mails, runvars, timevars>>

RequestEmailsOnce == RequestEmailsOnceFrom(Entries)

NextEmails ==
    \/ RequestEmailsBegin
    \/ RequestEmailsOnce

SpecEmails == InitEmails /\ [][NextEmails]_vars

----------------------------------------------------------------------------
(* The command line entry point run without flags: RunDispatcher.run *)

\* "Aborted!"
AbortedText == <<"A", "b", "o", "r", "t", "e", "d", "!">>

\* "No run ID selected. Exit!"
NoRunIdText ==
    <<"N", "o", " ", "r", "u", "n", " ", "I", "D", " ", "s", "e", "l", "e", "c", "t", "e", "d",
      ".", " ", "E", "x", "i", "t", "!">>

\* "Run completed!", the value run returns
RunCompletedText ==
    <<"R", "u", "n", " ", "c", "o", "m", "p", "l", "e", "t", "e", "d", "!">>

\* "Run completed", the line the entry point writes
EchoedText == <<"R", "u", "n", " ", "c", "o", "m", "p", "l", "e", "t", "e", "d">>

\* str(e) of a SystemExit raised by sys.exit(message)
ExitText(exc) == IF exc.msg = "Aborted!" THEN AbortedText ELSE NoRunIdText

\* the run id dialog was cancelled: app.run() gave None
NoSelection == <<<<"None">>>>

\* What the run id dialog may give: None, or the ticked run ids, none
\* ticked twice.
Selections ==
    {NoSelection}
    \cup {ids \in SeqsUpTo({run_ids[k][1] : k \in 1..Len(run_ids)}, MaxList) :
            \A i, j \in 1..Len(ids) : ids[i] = ids[j] => i = j}

\* request_run_ids on what the dialog gave
request_run_ids(answer) ==
    IF answer = NoSelection THEN Raise("SystemExit", "Aborted!", None)
    ELSE IF Len(answer) = 0 THEN Raise("SystemExit", "No run ID selected. Exit!", None)
    ELSE Return(answer)

\* request_groups on what the dialog gave
request_groups(answer) ==
    IF answer = Cancelled THEN Raise("SystemExit", "Aborted!", None)
    ELSE Return(answer)

\* What the operator enters in the recipient dialog of a run: a valid
\* address, two of them, or an address that is not valid.
RecipientEntries ==
    {<<"a", "@", "b", ".", "c">>, <<"a", "@", "b", ".", "c", ",", "x", "@", "y", ".", "z">>,
     <<"a", ".", "b">>}

\* What the public directory holds before the run: nothing, an archive of
\* the first run written just now, or one written more than MAXDAYS ago.
StaleKinds == {"none", "fresh", "old"}

InitRun ==
    /\ now \in Clocks
    /\ \E kinds \in [1..2 -> {"ok", "empty"}] : \E stale \in StaleKinds :
       \E subdir \in BOOLEAN :
          LET archive == Join(public_path, ArchiveFileName(RunId(1), AG))
              old == Join(public_path, PublicSubdirName)
          IN /\ fs = MakeFs(RootNodes \cup {<<public_path, "dir">>}
                            \cup UNION {RunNodes(RunFolder(k), kinds[k]) : k \in 1..2}
                            \cup (IF stale # "none" THEN {<<archive, "file">>} ELSE {})
                            \cup (IF subdir THEN {<<old, "dir">>} ELSE {}))
             /\ content = IF stale # "none" THEN (archive :> StaleMembers) ELSE NoContent
             /\ mtime = [p \in Children(fs, public_path) |->
                            IF p = archive /\ stale = "fresh" THEN now
                            ELSE now - (MAXDAYS + 1) * DayTicks]
    /\ run_ids = CollectedRunIds(2)
    /\ lsorder \in {o \in ListOrders : o.rot = 0}
    /\ to_default_recipients = TRUE
    /\ pc = "idle"
    /\ ret = NotCalled
    /\ CheckIdle
    /\ EmailsIdle
    /\ RunIdle
    /\ arg_run_ids = <<>>
    /\ arg_recipients = <<>>
    /\ recipients = <<>>
    /\ res = NoRes
    /\ smtp = <<>>
    /\ mails = <<>>

\* run has been entered
InRun == calls # <<>>

\* dispatcher.run() up to the end of its first try block: the run ids are
\* asked for
RunRequestRunIds ==
    /\ pc = "idle"
    /\ calls' = <<"request_run_ids">>
    /\ \E answer \in Selections :
          /\ selected' = answer
          /\ IF request_run_ids(answer).tag = "return"
             THEN pc' = "run_emails" /\ UNCHANGED ret
             ELSE pc' = "run_returned" /\ ret' = Return(ExitText(request_run_ids(answer)))
    /\ UNCHANGED <<fs, lsorder, run_ids, checkvars, dispatchvars, emailvars,
                   groups, output, timevars>>

\* the second try block: request_emails is entered
RunRequestEmails ==
    /\ pc = "run_emails"
    /\ calls' = Append(calls, "request_emails")
    /\ pc' = "emails"
    /\ textr' = _get_formatted_text(NotAsked, FALSE)
    /\ recipients' = <<>>
    /\ UNCHANGED <<fs, lsorder, run_ids, ret, checkvars, received,
                   to_default_recipients, arg_run_ids, arg_recipients, res, content,
                   smtp, mails, selected, groups, output, timevars>>

\* the second try block once request_emails has returned or exited
RunEmailsAnswered ==
    /\ InRun
    /\ \/ /\ pc = "emails_done"
          /\ pc' = "run_groups"
          /\ UNCHANGED ret
       \/ /\ pc = "emails_exit"
          /\ pc' = "run_returned"
          /\ ret' = Return(ExitText(ret))
    /\ UNCHANGED <<fs, lsorder, run_ids, checkvars, dispatchvars, emailvars,
                   runvars, timevars>>

\* a third try block that takes a cancelled dialog for an answer
RunRequestGroupsUncaught ==
    /\ pc = "run_groups"
    /\ calls' = Append(calls, "request_groups")
    /\ \E answer \in {Cancelled, AG} :
          /\ groups' = answer
          /\ pc' = "run_dispatch"
          /\ UNCHANGED ret
    /\ UNCHANGED <<fs, lsorder, run_ids, checkvars, dispatchvars, emailvars,
                   selected, output, timevars>>

\* the third try block: the group is asked for
RunRequestGroups ==
    /\ pc = "run_groups"
    /\ calls' = Append(calls, "request_groups")
    /\ \E answer \in {Cancelled, AG} :
          /\ groups' = answer
          /\ IF request_groups(answer).tag = "return"
             THEN pc' = "run_dispatch" /\ UNCHANGED ret
             ELSE pc' = "run_returned" /\ ret' = Return(ExitText(request_groups(answer)))
    /\ UNCHANGED <<fs, lsorder, run_ids, checkvars, dispatchvars, emailvars,
                   selected, output, timevars>>

\* self.dispatch(run_ids, groups, recipients) up to its for loop
RunDispatch ==
    /\ pc = "run_dispatch"
    /\ calls' = Append(calls, "dispatch")
    /\ arg_run_ids' = selected
    /\ arg_recipients' = recipients
    /\ recipients' = ExtendRecipients(to_default_recipients, recipients)
    /\ res' = NoRes
    /\ idx' = 1
    /\ pc' = "dispatch"
    /\ UNCHANGED <<fs, lsorder, run_ids, ret, result, folder, to_default_recipients,
                   content, smtp, mails, emailvars, selected, groups, output, timevars>>

\* self.cleanup() and return "Run completed!"
RunCleanup ==
    /\ InRun
    /\ pc = "dispatch_done"
    /\ calls' = Append(calls, "cleanup")
    /\ LET done == cleanup(fs, content, lsorder, mtime, now)
       IN /\ fs' = done.fs
          /\ content' = done.content
          /\ mtime' = done.mtime
          /\ IF done.out.tag = "return"
             THEN pc' = "run_returned" /\ ret' = Return(RunCompletedText)
             ELSE pc' = "run_raised" /\ ret' = done.out
    /\ UNCHANGED <<lsorder, run_ids, checkvars, to_default_recipients, arg_run_ids,
                   arg_recipients, recipients, res, smtp, mails, emailvars,
                   selected, groups, output, now>>

\* bin/run.py: dispatcher.run() has returned, its value is dropped, and
\* click.echo("Run completed") writes the line
CliEcho ==
    /\ pc = "run_returned"
    /\ output' = Append(output, EchoedText)
    /\ pc' = "cli_done"
    /\ UNCHANGED <<fs, lsorder, run_ids, ret, checkvars, dispatchvars, emailvars,
                   calls, selected, groups, timevars>>

NextRun ==
    \/ RunRequestRunIds
    \/ RunRequestEmails
    \/ RequestEmailsOnceFrom(RecipientEntries)
    \/ RunEmailsAnswered
    \/ RunRequestGroups
    \/ RunDispatch
    \/ DispatchStep
    \/ DispatchReturn
    \/ RunCleanup
    \/ CliEcho

SpecRun == InitRun /\ [][NextRun]_vars

----------------------------------------------------------------------------
(* Properties of get_input_folder (checked under SpecResolve) *)

BaseCallsUnder(base) ==
    Join(Join(Join(base, DataName), IntensitiesName), BaseCallsName)

\* the candidate directory of the run folder that was resolved
ResolvedCandidate == Candidate(fs, RunFolder(1), RunId(1))

\* the entries of a directory whose name starts with "Alignment"
AlignEntries(f, dir) ==
    {q \in Children(f, dir) : StartsWith(NameOf(q), AlignmentPrefix)}

\* the entry of a non-empty set whose name is greatest in string order
GreatestByName(S) ==
    CHOOSE a \in S : \A b \in S \ {a} : StrLess(NameOf(b), NameOf(a))

\* the call was made on a readable candidate directory
ResolvedReadable ==
    pc = "resolved" /\ IterDirError(fs, ResolvedCandidate) = "none"

\* C1: when the candidate directory holds entries whose name starts with
\* "Alignment", the entry with the greatest name in string order is the one
\* chosen, whatever the listing order: a returned path lies inside that
\* entry, and when that entry is a readable directory with a child the call
\* returns <entry>/<first listed child>/Fastq.
C1_GreatestAlignmentChosen ==
    (ResolvedReadable /\ AlignEntries(fs, ResolvedCandidate) # {}) =>
        LET g == GreatestByName(AlignEntries(fs, ResolvedCandidate))
        IN /\ ret.tag = "return" => Parent(Parent(ret.value)) = g
           /\ (IterDirError(fs, g) = "none" /\ Children(fs, g) # {}) =>
                 ret = Return(Join(IterDir(fs, lsorder, g)[1], FastqName))

\* C1 witness: "Alignment_9" and "Alignment_10" are both listed, with
\* "Alignment_10" listed last, and a path inside "Alignment_9" is returned
C1_Witness ==
    /\ ResolvedReadable
    /\ Cardinality(AlignEntries(fs, ResolvedCandidate)) >= 2
    /\ LET listed == AlignmentsOf(IterDir(fs, lsorder, ResolvedCandidate))
       IN NameOf(listed[Len(listed)]) = AlignmentName(10)
    /\ ret.tag = "return"
    /\ NameOf(Parent(Parent(ret.value))) = AlignmentName(9)

\* C2: with no alignment folder, the "Unaligned" directory of the run folder
\* is returned when it exists, also when "Data/Intensities/BaseCalls" exists
\* too, and "Data/Intensities/BaseCalls" is returned only when "Unaligned"
\* does not exist.
C2_UnalignedPreferred ==
    (ResolvedReadable /\ AlignEntries(fs, ResolvedCandidate) = {}) =>
        LET unaligned == Join(RunFolder(1), UnalignedName)
            basecalls == BaseCallsUnder(RunFolder(1))
        IN /\ Exists(fs, unaligned) => ret = Return(unaligned)
           /\ (~Exists(fs, unaligned) /\ Exists(fs, basecalls)) => ret = Return(basecalls)
           /\ ret = Return(basecalls) => ~Exists(fs, unaligned)

\* C2 witness: both legacy directories exist and "Unaligned" is returned
C2_Witness ==
    /\ ResolvedReadable
    /\ AlignEntries(fs, ResolvedCandidate) = {}
    /\ Exists(fs, BaseCallsUnder(RunFolder(1)))
    /\ ret = Return(Join(RunFolder(1), UnalignedName))

\* the call ended by returning a path or by the "not found" ValueError
ReturnsPathOrNotFound ==
    \/ ret.tag = "return" /\ ret.value # None
    \/ ret.tag = "ValueError" /\ ret.msg = NoFastqMsg

C4_ReturnedPathExists ==
    (pc = "resolved" /\ ret.tag = "return") => IsDir(fs, ret.value)

\* C5: when run_root/run_id exists and holds no alignment folder, the legacy
\* directories are looked for under run_root/run_id and the first that
\* exists is returned.
C5_LegacyUnderCandidate ==
    (/\ ResolvedReadable
     /\ ResolvedCandidate = Join(RunFolder(1), RunId(1))
     /\ AlignEntries(fs, ResolvedCandidate) = {}) =>
        LET unaligned == Join(ResolvedCandidate, UnalignedName)
            basecalls == BaseCallsUnder(ResolvedCandidate)
        IN /\ Exists(fs, unaligned) => ret = Return(unaligned)
           /\ (~Exists(fs, unaligned) /\ Exists(fs, basecalls)) => ret = Return(basecalls)

----------------------------------------------------------------------------
(* Properties of check_all_folders (checked under SpecCheck) *)

\* what probing the k-th known run folder does: the outcome of
\* get_input_folder and, when it returns, of check_for_fastq
Probe(k) ==
    LET got == get_input_folder(fs, lsorder, run_ids[k][2], run_ids[k][1])
    IN IF got.tag = "return" THEN check_for_fastq(fs, lsorder, got.value) ELSE got

\* the k-th known run has no read-file directory: it cannot be resolved, or
\* the resolved directory does not exist on disk
NoReadFileDirectory(k) ==
    LET got == get_input_folder(fs, lsorder, run_ids[k][2], run_ids[k][1])
    IN \/ got.tag = "ValueError"
       \/ got.tag = "return" /\ ~Exists(fs, got.value)

\* the report holds exactly one line for every known run id, in dict order
OneLinePerRunId(report) ==
    /\ Len(report) = Len(run_ids)
    /\ \A k \in 1..Len(run_ids) : report[k].run_id = run_ids[k][1]

\* C6: check_all_folders is never aborted by a run that has no read-file
\* directory, and the report it returns holds exactly one line for every
\* known run id.
C6_MissingReadDirNeverAborts ==
    /\ pc = "check_raised" => ~NoReadFileDirectory(idx)
    /\ pc = "check_done" => OneLinePerRunId(ret.value)

\* C7: a PermissionError raised while probing the folder of a run id never
\* terminates the scan, and every run id probed so far whose probing raised
\* it has its line in the report.
C7_PermissionErrorNeverAborts ==
    /\ pc = "check_raised" => Probe(idx).tag # "PermissionError"
    /\ pc \in {"check", "check_done"} =>
          \A k \in 1..Len(result) :
              Probe(k).tag = "PermissionError" =>
                  /\ result[k].run_id = run_ids[k][1]
                  /\ result[k].text = "PermissionError for"

----------------------------------------------------------------------------
(* Properties of dispatch (checked under SpecDispatch) *)

\* dispatch raised "Run <id> does not exist." or "Folder <path> does not exist."
RaisedNoSuchRun ==
    /\ pc = "dispatch_raised"
    /\ ret.tag = "ValueError"
    /\ ret.msg \in {"Run does not exist.", "Folder does not exist."}

\* the run id is a key of self.run_ids and its folder exists
RunExists(run_id) ==
    IsKnown(run_ids, run_id) /\ Exists(fs, FolderOf(run_ids, run_id))

\* this call has created no archive and sent no email for the run id: a file
\* of the archive's name is the one an earlier call left
NothingDoneFor(run_id) ==
    LET archive == Join(public_path, ArchiveFileName(run_id, AG))
    IN /\ \A k \in 1..Len(mails) : mails[k].filename # ArchiveFileName(run_id, AG)
       /\ Exists(fs, archive) => content[archive] = StaleMembers

\* C8: the for loop of dispatch never gets past a run id that is no key of
\* run_ids or whose folder does not exist: it raises ValueError ("Run <id>
\* does not exist." / "Folder <path> does not exist.") at that run id, with
\* no archive created and no email sent for it, and the call ends there.
C8_NoSuchRunAborts ==
    /\ pc \in {"dispatch", "dispatch_done", "dispatch_raised"} =>
          \A k \in 1..(idx - 1) : RunExists(arg_run_ids[k])
    /\ (pc = "dispatch_raised" /\ ~RunExists(arg_run_ids[idx])) => RaisedNoSuchRun
    /\ RaisedNoSuchRun =>
          /\ ~RunExists(arg_run_ids[idx])
          /\ ret.msg = IF IsKnown(run_ids, arg_run_ids[idx])
                       THEN "Folder does not exist." ELSE "Run does not exist."
          /\ NothingDoneFor(arg_run_ids[idx])
          /\ Len(mails) <= idx - 1
          /\ ~ENABLED NextDispatch

\* C8 witness: the first of two run ids is unknown, the second one could
\* have been dispatched; the call raised at the first and nothing was sent
C8_Witness ==
    /\ RaisedNoSuchRun
    /\ idx = 1
    /\ Len(arg_run_ids) = 2
    /\ RunExists(arg_run_ids[2])
    /\ get_input_folder(fs, lsorder, FolderOf(run_ids, arg_run_ids[2]), arg_run_ids[2]).tag = "return"
    /\ mails = <<>>
    /\ smtp = <<>>

\* how often a command occurs in the SMTP log
CountOf(cmd) == Cardinality({k \in 1..Len(smtp) : smtp[k] = cmd})

\* n sessions one after the other, each complete
RECURSIVE Sessions(_)
Sessions(n) == IF n = 0 THEN <<>> ELSE SmtpSteps \o Sessions(n - 1)

\* C9 as stated: a dispatch call of one or more run ids opens exactly one
\* SMTP session, sends exactly one message and closes the session.
C9_Original ==
    (pc = "dispatch_done" /\ Len(arg_run_ids) >= 1) =>
        /\ CountOf("connect") = 1
        /\ CountOf("sendmail") = 1
        /\ CountOf("quit") = 1
        /\ Len(mails) = 1

\* C9 as amended: a dispatch call that returns has opened exactly one SMTP
\* session per run id of its list; each session starts TLS, authenticates,
\* sends exactly one message and is closed before the next one is opened.
C9_OneSessionPerRunId ==
    /\ pc = "dispatch_done" =>
          /\ smtp = Sessions(Len(arg_run_ids))
          /\ Len(mails) = Len(arg_run_ids)
    /\ pc = "dispatch" =>
          /\ smtp = Sessions(idx - 1)
          /\ Len(mails) = idx - 1

\* C9 witness: a call with two run ids has returned after two sessions
C9_Witness ==
    /\ pc = "dispatch_done"
    /\ Len(arg_run_ids) = 2
    /\ CountOf("connect") = 2
    /\ Len(mails) = 2

----------------------------------------------------------------------------
(* Properties of request_emails (checked under SpecEmails) *)

\* the addresses of an entry: the pieces between its commas, blanks removed
PiecesOf(entered) ==
    IF entered = <<>> THEN <<>> ELSE Split(StripWhitespace(entered), ",")

\* the positions of the addresses of a list that are not valid
InvalidAt(to) == {k \in 1..Len(to) : ~ValidEmail(to[k])}

\* the smallest of a non-empty set of positions
Least(S) == CHOOSE k \in S : \A j \in S : k <= j

\* C10: request_emails returns only a list in which every address passed
\* validation; after an entry with an invalid address it prompts again, in
\* red, with a message naming the first invalid address of that entry; and
\* it leaves the loop by an exception only when the dialog was cancelled.
C10_OnlyValidRecipientsReturned ==
    /\ pc = "emails_done" =>
          /\ ret = Return(PiecesOf(received))
          /\ InvalidAt(ret.value) = {}
    /\ (pc = "emails" /\ received # NotAsked) =>
          /\ InvalidAt(PiecesOf(received)) # {}
          /\ textr = [color |-> "#ff0000",
                      invalid |-> PiecesOf(received)[Least(InvalidAt(PiecesOf(received)))]]
    /\ pc = "emails_exit" =>
          /\ received = Cancelled
          /\ ret = Raise("SystemExit", "Aborted!", None)
    /\ pc \in {"emails", "emails_done"} => ret.tag \in {"notcalled", "return"}

\* C10 witness: an entry whose second address is invalid was rejected with a
\* message naming it, and a list of two valid addresses was then returned
C10_Witness ==
    /\ pc = "emails_done"
    /\ Len(ret.value) = 2
    /\ textr.color = "#ff0000"
    /\ textr.invalid = <<"a", "@", "b">>

----------------------------------------------------------------------------
(* Properties of __collect_ids (checked under SpecCollect) *)

RECURSIVE Flatten(_)
Flatten(ss) == IF ss = <<>> THEN <<>> ELSE Head(ss) \o Flatten(Tail(ss))

\* a name that may be a run id: it begins with a digit and has more than
\* four characters
RunName(name) == IsDigit(name[1]) /\ Len(name) > 4

\* a 4-character entry directly under a root, beginning with a digit
FourCharEntry(f, p) ==
    /\ \E r \in 1..Len(all_paths) : Parent(p) = all_paths[r]
    /\ Exists(f, p)
    /\ Len(NameOf(p)) = 4
    /\ IsDigit(NameOf(p)[1])

\* the entries under the roots that carry a run name: directly under a
\* root, or directly under a 4-character entry of a root
RunEntries(f) ==
    {p \in DOMAIN f :
        /\ RunName(NameOf(p))
        /\ \/ \E r \in 1..Len(all_paths) : Parent(p) = all_paths[r]
           \/ FourCharEntry(f, Parent(p))}

\* the run entries in the order the scan comes to them: root by root, each
\* root in listing order, a 4-character entry replaced by its own listing
ScanOrder(f, o) ==
    LET under(dir) == IterDir(f, o, dir)
        expand(item) == IF FourCharEntry(f, item) THEN under(item) ELSE <<item>>
        ofRoot(root) == Flatten([k \in 1..Len(under(root)) |-> expand(under(root)[k])])
        all == Flatten([r \in 1..Len(all_paths) |-> ofRoot(all_paths[r])])
    IN SelectSeq(all, LAMBDA p : RunName(NameOf(p)))

\* every 4-character entry of a root holds exactly one nested run
OneRunPerFourChar(f) ==
    \A p \in DOMAIN f :
        FourCharEntry(f, p) =>
            Cardinality({q \in RunEntries(f) : Parent(q) = p}) = 1

\* N: the entries directly under a root that carry a run name
CountN(f) ==
    Cardinality({p \in RunEntries(f) : \E r \in 1..Len(all_paths) : Parent(p) = all_paths[r]})

\* M: the 4-character entries of the roots
CountM(f) == Cardinality({p \in DOMAIN f : FourCharEntry(f, p)})

\* only the first root holds entries
OneRootOnly(f) ==
    \A p \in DOMAIN f : Len(p) >= 2 => (p[2] # NextSeqName /\ p[2] # MiSeqName)
                                        \/ Len(p) = 2

\* C13 as stated: a root with N run entries and M 4-character entries of
\* one nested run each yields N + M run ids.
C13_Original ==
    (pc = "constructed" /\ OneRootOnly(fs) /\ OneRunPerFourChar(fs))
        => Len(run_ids) = CountN(fs) + CountM(fs)

\* C13: with N run entries directly under the roots and M 4-character
\* entries of one nested run each, the collection yields one run id for
\* every distinct name among these N + M entries: N + M run ids when the
\* names differ from each other, fewer when a name occurs more than once.
C13_OneIdPerDistinctName ==
    (pc = "constructed" /\ OneRunPerFourChar(fs))
        => /\ Cardinality(RunEntries(fs)) = CountN(fs) + CountM(fs)
           /\ Len(run_ids) = Cardinality({NameOf(p) : p \in RunEntries(fs)})
           /\ Len(run_ids) <= CountN(fs) + CountM(fs)
           /\ (\A p, q \in RunEntries(fs) : NameOf(p) = NameOf(q) => p = q)
                  => Len(run_ids) = CountN(fs) + CountM(fs)

C13_Witness ==
    /\ pc = "constructed"
    /\ OneRunPerFourChar(fs)
    /\ OneRootOnly(fs)
    /\ CountN(fs) = 2
    /\ CountM(fs) = 1
    /\ Len(run_ids) = 3

\* the place in the scan order at which a name is seen last
LastSeen(scan, k) == \A j \in (k + 1)..Len(scan) : NameOf(scan[j]) # NameOf(scan[k])

\* C14: a run id found in more than one place has exactly one entry in
\* run_ids, and its folder is the place seen last in the scan order.
C14_LastSeenWins ==
    pc = "constructed" =>
        LET scan == ScanOrder(fs, lsorder)
        IN /\ {scan[k] : k \in 1..Len(scan)} = RunEntries(fs)
           /\ \A k \in 1..Len(scan) :
                 LastSeen(scan, k) =>
                    /\ Cardinality({j \in 1..Len(run_ids) :
                                        run_ids[j][1] = NameOf(scan[k])}) = 1
                    /\ FolderOf(run_ids, NameOf(scan[k])) = scan[k]

C14_Witness ==
    /\ pc = "constructed"
    /\ \E p, q \in RunEntries(fs) :
          /\ p # q
          /\ NameOf(p) = NameOf(q)
          /\ p[2] = NextSeqName
          /\ Len(q) = 2
          /\ FolderOf(run_ids, NameOf(p)) = p

\* C15: after construction every key of run_ids begins with a digit and
\* has more than four characters, and its value is the path of an entry of
\* that name.
C15_KeysAreRunNames ==
    pc = "constructed" =>
        \A k \in 1..Len(run_ids) :
            /\ IsDigit(run_ids[k][1][1])
            /\ Len(run_ids[k][1]) > 4
            /\ Exists(fs, run_ids[k][2])
            /\ NameOf(run_ids[k][2]) = run_ids[k][1]

C15_Witness ==
    /\ pc = "constructed"
    /\ Len(run_ids) >= 2
    /\ Exists(fs, Join(Join(all_paths[1], YearName), LetterName))
    /\ Exists(fs, Join(Join(all_paths[1], YearName), YearName))
    /\ Exists(fs, Join(all_paths[1], ShortName))

----------------------------------------------------------------------------
(* Properties of check_for_fastq (checked under SpecFastq) *)

\* the entries of a directory whose name contains ".fastq"
MarkedEntries(f, dir) == {p \in Children(f, dir) : Contains(NameOf(p), DotFastq)}

----------------------------------------------------------------------------
(* The frame of the read-only operations (checked under SpecReadOnly) *)

\* C17: get_input_folder, check_for_fastq, check_all_folders and
\* get_run_ids_string leave the filesystem tree, the bytes of its files and
\* the run_ids map as they were, whether they return or raise.
C17_ReadOnlyOperationsChangeNothing ==
    [][fs' = fs /\ content' = content /\ run_ids' = run_ids]_vars

C17_Witness ==
    /\ pc = "check_raised"
    /\ ret.tag # "return"
    /\ Len(result) = 1
    /\ Len(run_ids) = 2

----------------------------------------------------------------------------
(* The resolver and the listing order (checked under SpecResolve) *)

\* the chosen alignment folder can be listed and has more than one child
ChosenHasSeveralChildren ==
    /\ IterDirError(fs, ResolvedCandidate) = "none"
    /\ AlignEntries(fs, ResolvedCandidate) # {}
    /\ LET g == GreatestByName(AlignEntries(fs, ResolvedCandidate))
       IN IterDirError(fs, g) = "none" /\ Cardinality(Children(fs, g)) > 1

\* what the call gives when the same tree is listed in another order
ResolvedUnder(o) == get_input_folder(fs, o, RunFolder(1), RunId(1))

\* C20: the result of get_input_folder depends on the listing order only
\* through the pick of the first child of the chosen alignment folder: when
\* that folder has at most one child, or there is no alignment folder, every
\* listing order of the same tree gives the same result.
C20_OrderOnlyThroughFirstChild ==
    (pc = "resolved" /\ ~ChosenHasSeveralChildren)
        => \A o \in ListOrders : ResolvedUnder(o) = ret

\* C20 witness: with more than one child the results of two orders differ
C20_Witness ==
    /\ pc = "resolved"
    /\ ChosenHasSeveralChildren
    /\ Cardinality(AlignEntries(fs, ResolvedCandidate)) > 1
    /\ \E o \in ListOrders : ResolvedUnder(o) # ret

----------------------------------------------------------------------------
(* The recipients of the emails of a dispatch (checked under SpecDispatch) *)

\* C19: every email sent by a dispatch call goes to the caller's recipients
\* followed by all default recipients when to_default_recipients is true,
\* and to exactly the caller's recipients when it is false.
C19_RecipientsOfEveryEmail ==
    \A k \in 1..Len(mails) :
        mails[k].recipients =
            IF to_default_recipients
            THEN arg_recipients \o default_recipients
            ELSE arg_recipients

\* C19 witness: two emails were sent to the caller's and the default recipients
C19_Witness ==
    /\ pc = "dispatch_done"
    /\ to_default_recipients
    /\ arg_recipients # <<>>
    /\ Len(mails) = 2
    /\ Len(mails[2].recipients) = Len(arg_recipients) + Len(default_recipients)

----------------------------------------------------------------------------
(* The retention window (checked under SpecCleanup) *)

\* the age of an entry in whole days: the clock minus its modification time
WholeDaysOld(p) == (now - mtime[p]) \div DayTicks

\* C18: cleanup deletes an entry of the public directory if and only if its
\* age in whole days is at least MAXDAYS, and after cleanup no entry of that
\* age remains.
C18_DeletesExactlyTheOldEntries ==
    [][(pc = "idle" /\ pc' \in {"cleanup_done", "cleanup_raised"}) =>
          /\ \A p \in Children(fs, public_path) :
                ~Exists(fs', p) <=> WholeDaysOld(p) >= MAXDAYS
          /\ \A p \in Children(fs', public_path) : WholeDaysOld(p) < MAXDAYS]_vars

----------------------------------------------------------------------------
(* The interactive flow (checked under SpecRun) *)

\* the steps of run in the order of its code
RunOrder == <<"request_run_ids", "request_emails", "request_groups", "dispatch", "cleanup">>

Called(step) == \E k \in 1..Len(calls) : calls[k] = step

\* a dialog was cancelled, or the run id dialog was confirmed with nothing
\* ticked
RunAborted ==
    \/ selected = NoSelection
    \/ selected = <<>>
    \/ received = Cancelled
    \/ groups = Cancelled

\* the message of the sys.exit that ends an aborted flow
AbortText == IF selected = <<>> THEN NoRunIdText ELSE AbortedText

\* the three dialogs have given a value
AllAnswered ==
    /\ selected \notin {Unbound, NoSelection, <<>>}
    /\ received \notin {NotAsked, Cancelled}
    /\ _validate_recipients(arg_recipients).ok
    /\ groups \notin {NotAsked, Cancelled}

\* C11: run calls request_run_ids, request_emails, request_groups, dispatch
\* and cleanup in this order; dispatch is called only once the three dialogs
\* have given a value; when a dialog is cancelled, or no run id is ticked,
\* run returns the message of the exit, and neither dispatch nor cleanup is
\* called: nothing is archived and no email is sent.
C11_RunOrderAndAbort ==
    /\ Len(calls) <= Len(RunOrder)
    /\ \A k \in 1..Len(calls) : calls[k] = RunOrder[k]
    /\ Called("dispatch") => AllAnswered
    /\ RunAborted =>
          /\ pc \in {"emails_exit", "run_returned", "cli_done"}
          /\ pc # "emails_exit" => ret = Return(AbortText)
          /\ ~Called("dispatch")
          /\ ~Called("cleanup")
          /\ smtp = <<>>
          /\ mails = <<>>
    /\ (pc \in {"run_returned", "cli_done"} /\ ~RunAborted) =>
          (calls = RunOrder /\ ret = Return(RunCompletedText))

\* C11 witness: a run that went through all five steps and sent an email
C11_Witness ==
    /\ pc = "run_returned"
    /\ calls = RunOrder
    /\ ret = Return(RunCompletedText)
    /\ Len(mails) = 2

AbortedWord == <<"A", "b", "o", "r", "t", "e", "d">>
ExitWord == <<"E", "x", "i", "t">>

\* C12: when the flow started without flags is aborted, what the entry
\* point wrote contains "Aborted" after a cancelled dialog and "Exit" after
\* an empty run id selection.
C12_OutputShowsAbortReason ==
    (pc = "cli_done" /\ RunAborted) =>
        \E k \in 1..Len(output) :
            Contains(output[k], IF selected = <<>> THEN ExitWord ELSE AbortedWord)

----------------------------------------------------------------------------
(* Failures, archives and emails of dispatch (checked under SpecRun and
   SpecDispatch) *)

\* the public archive of a run id
ArchiveOf(run_id) == Join(public_path, ArchiveFileName(run_id, AG))

\* the file at the path is a closed archive
Closed(path) == Len(content[path]) > 0 /\ content[path][Len(content[path])] = EndOfArchive

\* dispatch ended with the exception of _targz or of the SMTP exchange
DispatchFailed ==
    pc = "dispatch_raised" /\ ret.tag \in {"OSError", "SMTPException"}

\* C21: a failure of archive creation or of the SMTP exchange is neither
\* retried nor swallowed.  The loop goes on to the next run id only after
\* a closed archive and a complete session for each run id before it; when
\* _targz or send_email raises, dispatch ends with that exception at that run
\* id, with at most one session opened per run id up to it, nothing done
\* for the run ids after it, cleanup not called, nothing echoed, and no
\* step of run left to take.
C21_FailurePropagates ==
    /\ (InRun /\ pc \in {"dispatch", "dispatch_done"}) =>
          /\ smtp = Sessions(idx - 1)
          /\ \A k \in 1..(idx - 1) :
                Exists(fs, ArchiveOf(arg_run_ids[k])) /\ Closed(ArchiveOf(arg_run_ids[k]))
    /\ (InRun /\ DispatchFailed) =>
          /\ idx <= Len(arg_run_ids)
          /\ CountOf("connect") <= idx
          /\ Len(mails) <= idx
          /\ \A k \in (idx + 1)..Len(arg_run_ids) : NothingDoneFor(arg_run_ids[k])
          /\ ~Called("cleanup")
          /\ output = <<>>
          /\ ~ENABLED NextRun

\* C21 witness: run dispatches two run ids, writing the archive of the first
\* one failed, and the second one was ready to be dispatched
C21_Witness ==
    /\ InRun
    /\ DispatchFailed
    /\ ret.tag = "OSError"
    /\ Len(arg_run_ids) = 2
    /\ idx = 1
    /\ check_for_fastq(fs, lsorder,
                       get_input_folder(fs, lsorder, FolderOf(run_ids, arg_run_ids[2]),
                                        arg_run_ids[2]).value).value
    /\ smtp = <<>>

\* the files of the public directory
PublicFiles(f) == {p \in Children(f, public_path) : f[p] = "file"}

\* C22: dispatch writes the public archive <run_id>_AG_<ag>.tar.gz only
\* when no file of that name is in the public directory: a file that is
\* there keeps its bytes, and every email carries the checksum of the file
\* at the archive's path, so two emails for the same run id and group
\* carry the same checksum.
C22_ArchiveCreatedOnce ==
    /\ [](\A k \in 1..Len(mails) :
            /\ Exists(fs, Join(public_path, mails[k].filename))
            /\ mails[k].md5sum = _get_md5sum(content, Join(public_path, mails[k].filename))
            /\ \A j \in 1..Len(mails) :
                  mails[j].filename = mails[k].filename => mails[j].md5sum = mails[k].md5sum)
    /\ [][\A p \in PublicFiles(fs) :
             p \in PublicFiles(fs') /\ content'[p] = content[p]]_vars

\* C22 witness: the same run id was dispatched twice by one call with no
\* archive there before; the archive holds the read files and both emails
\* carry its checksum
C22_Witness ==
    /\ pc = "dispatch_done"
    /\ arg_run_ids = <<RunId(1), RunId(1)>>
    /\ Len(mails) = 2
    /\ content[ArchiveOf(RunId(1))] # StaleMembers
    /\ mails[1].md5sum = _get_md5sum(content, ArchiveOf(RunId(1)))
    /\ mails[2].md5sum = mails[1].md5sum

\* the read-file directory get_input_folder resolves for the run id, None
\* when it gives none
ReadFileDir(run_id) ==
    LET got == get_input_folder(fs, lsorder, FolderOf(run_ids, run_id), run_id)
    IN IF RunExists(run_id) /\ got.tag = "return" THEN got.value ELSE None

\* the run id has a read-file directory that can be listed and has no entry
\* with ".fastq" in its name
NoReadFiles(run_id) ==
    /\ ReadFileDir(run_id) # None
    /\ IterDirError(fs, ReadFileDir(run_id)) = "none"
    /\ MarkedEntries(fs, ReadFileDir(run_id)) = {}

\* dispatch raised "Folder <path> is empty for <run_id>"
RaisedEmpty ==
    pc = "dispatch_raised" /\ ret.tag = "ValueError" /\ ret.msg = "is empty for"

\* C23: the for loop of dispatch never gets past a run id whose read-file
\* directory has no entry with ".fastq" in its name: it raises ValueError
\* ("Folder <path> is empty for <run_id>") at that run id, naming that
\* directory, with no archive created, no SMTP session opened and no email
\* sent for it.
C23_EmptyFolderRaises ==
    /\ pc \in {"dispatch", "dispatch_done", "dispatch_raised"} =>
          \A k \in 1..(idx - 1) : ~NoReadFiles(arg_run_ids[k])
    /\ (pc = "dispatch_raised" /\ NoReadFiles(arg_run_ids[idx])) => RaisedEmpty
    /\ RaisedEmpty =>
          /\ NoReadFiles(arg_run_ids[idx])
          /\ ret.arg = ReadFileDir(arg_run_ids[idx])
          /\ NothingDoneFor(arg_run_ids[idx])
          /\ smtp = Sessions(idx - 1)
          /\ Len(mails) = idx - 1

\* C23 witness: the second run id of the list has a read-file directory
\* without read files; the first one was dispatched, the call raised at
\* the second, and no archive of the second is in the public directory
C23_Witness ==
    /\ RaisedEmpty
    /\ idx = 2
    /\ Len(mails) = 1
    /\ Children(fs, ReadFileDir(arg_run_ids[2])) # {}
    /\ ~Exists(fs, ArchiveOf(arg_run_ids[2]))

----------------------------------------------------------------------------
(* Termination of the recipient prompt loop *)

\* the entries in which every address is valid, the empty entry among them
ValidEntries == {en \in Entries : InvalidAt(PiecesOf(en)) = {}}

\* The operator does not enter invalid lists for ever: asked again and
\* again, they come to enter a list of valid addresses or to cancel.
OperatorEndsDialog == SF_vars(RequestEmailsOnceFrom(ValidEntries))

SpecEmailsFair == SpecEmails /\ OperatorEndsDialog

\* the loop of request_emails has been left
EmailsEnded == pc \in {"emails_done", "emails_exit"}

\* C25: the prompt loop of request_emails terminates when the operator
\* comes to enter a list of valid addresses or to cancel.  The iteration
\* in which that is entered is the last one: the call returns the list, or
\* exits with "Aborted!" on a cancel; the empty entry is returned as the
\* empty list by the iteration that reads it.
C25_PromptLoopTerminates ==
    /\ (pc = "emails") ~> EmailsEnded
    /\ [][(pc = "emails" /\ received' \in ValidEntries \cup {Cancelled}) =>
            /\ EmailsEnded'
            /\ ret' = IF received' = Cancelled
                      THEN Raise("SystemExit", "Aborted!", None)
                      ELSE Return(PiecesOf(received'))
            /\ received' = <<>> => ret' = Return(<<>>)]_vars

\* C25 witness: the loop was left with a list of valid addresses after an
\* iteration that rejected an entry
C25_Witness ==
    /\ pc = "emails_done"
    /\ received \in ValidEntries
    /\ ret.value # <<>>
    /\ textr.color = "#ff0000"

----------------------------------------------------------------------------
(* Archives announced by a run (checked under SpecRun) *)

\* C26: after a run that completed, dispatch followed by cleanup, every
\* archive whose link was emailed by that run is still in the public
\* directory, also when dispatch reused an archive that was there already.
C26_AnnouncedArchivesRemain ==
    (pc = "run_returned" /\ Called("cleanup")) =>
        \A k \in 1..Len(mails) : Exists(fs, Join(public_path, mails[k].filename))

----------------------------------------------------------------------------
(* What a dispatch call that raises leaves behind (checked under
   SpecDispatch) *)

\* dispatch raised a ValueError: unknown run id, missing run folder, no
\* read-file directory or one without read files
RaisedValueError == pc = "dispatch_raised" /\ ret.tag = "ValueError"

\* C27 as stated: a dispatch call that raised a ValueError has sent no
\* email and has published no archive for any run id of its list.
C27_Original ==
    RaisedValueError =>
        /\ mails = <<>>
        /\ \A p \in PublicFiles(fs) : content[p] = StaleMembers

\* C27 as amended: a dispatch call that raised a ValueError at the k-th run
\* id of its list has sent one email for each of the k - 1 run ids before
\* it, whose archives are in the public directory, and has sent no email
\* and published no archive for the k-th run id and the run ids after it,
\* unless they also stand before it in the list.
C27_RaiseKeepsEarlierRunIds ==
    RaisedValueError =>
        /\ idx <= Len(arg_run_ids)
        /\ Len(mails) = idx - 1
        /\ smtp = Sessions(idx - 1)
        /\ \A k \in 1..(idx - 1) :
              /\ mails[k].filename = ArchiveFileName(arg_run_ids[k], AG)
              /\ Exists(fs, ArchiveOf(arg_run_ids[k]))
              /\ Closed(ArchiveOf(arg_run_ids[k]))
        /\ \A k \in idx..Len(arg_run_ids) :
              (\A j \in 1..(idx - 1) : arg_run_ids[j] # arg_run_ids[k])
                  => NothingDoneFor(arg_run_ids[k])

\* C27 witness: the call raised at an unknown run id that stands second in
\* its list, after the archive of the first run id was written and its
\* email sent
C27_Witness ==
    /\ RaisedValueError
    /\ ret.msg = "Run does not exist."
    /\ idx = 2
    /\ Len(mails) = 1
    /\ Exists(fs, ArchiveOf(arg_run_ids[1]))
    /\ content[ArchiveOf(arg_run_ids[1])] # StaleMembers

\* C28: the public archive path never holds a partially written archive:
\* every file of the public directory is a closed archive, also after a
\* _targz that failed.
C28_NoPartialArchive ==
    \A p \in PublicFiles(fs) : Closed(p)

----------------------------------------------------------------------------
(* The recipient list of the caller (checked under SpecDispatchTwice) *)

\* how often an address stands in a list
Occurrences(to, address) == Cardinality({k \in 1..Len(to) : to[k] = address})

\* C29: dispatch leaves the list object of its caller as it was handed
\* over, so that every email of a first and of a second call with the same
\* list names each default recipient exactly once.
C29_CallerListUnchanged ==
    /\ pc \in {"dispatch", "dispatch_done", "dispatch_raised"} =>
          recipients = arg_recipients
    /\ to_default_recipients =>
          \A k \in 1..Len(mails) : \A d \in 1..Len(default_recipients) :
              Occurrences(mails[k].recipients, default_recipients[d]) = 1

----------------------------------------------------------------------------
(* The SMTP sessions of send_email (checked under SpecDispatch) *)

\* C30: the SMTP log is made of sessions in the order connect, STARTTLS,
\* login, sendmail, quit: a message is accepted only right after TLS and
\* authentication in its own session, and when the dispatch call has
\* ended, by returning or by raising, every session that was opened has
\* been closed with quit.
C30_SessionsOrderedAndClosed ==
    /\ \A k \in 1..Len(smtp) :
          smtp[k] = "sendmail" =>
              /\ k >= 4
              /\ smtp[k - 3] = "connect"
              /\ smtp[k - 2] = "starttls"
              /\ smtp[k - 1] = "login"
    /\ pc \in {"dispatch_done", "dispatch_raised"} =>
          CountOf("quit") = CountOf("connect")

====
